---- MODULE Spec2Model ----
(***************************************************************************)
(* A model of pywebarchive: the archive tree (WebArchive / WebResource),   *)
(* the local path allocator, URL resolution, reference rewriting in the    *)
(* main document, resource_count, to_html and the extraction orchestrator  *)
(* WebArchive.extract with its before / after / canceled callbacks.        *)
(*                                                                         *)
(* Strings that the code takes apart (file names, URLs) are sequences of   *)
(* tokens: a word ("pic", "con"), the dot ".", a digit, or one of the      *)
(* characters the allocator replaces ("%").                                *)
(***************************************************************************)
EXTENDS Integers, Sequences, FiniteSets, TLC

VARIABLES
    tree,      \* the root WebArchive (main, subs, kids, lp = _local_paths)
    status,    \* "idle" | "running" | "done" | "failed" | "queried"
    stack,     \* activation records of extract(), innermost last
    log,       \* observable events: canceled_cb / before_cb / write / after_cb
    files,     \* the file system: path -> what was written there
    dirs,      \* directories created by os.makedirs
    err,       \* the exception that escaped the operation, "none" if none
    html,      \* result of a to_html() call (<<>> until called)
    count,     \* result of a resource_count() call (-1 until called)
    args,      \* the arguments of the extract() call (<<>> until called)
    ret,       \* the call made on a resource or a table, and what it returned
    rw,        \* the rewriter at work on one document (MainResourceProcessor)
    gui        \* the extractor window and its worker thread (extractor-gui.py)

vars == <<tree, status, stack, log, files, dirs, err, html, count, args, ret,
          rw, gui>>

(***************************************************************************)
(* Bounds of the model.                                                    *)
(***************************************************************************)
\* Size of an archive tree: archives (nodes) plus subresources.
MaxSize == 4

\* Length of a document fed to the rewriter: declarations plus start tags.
MaxItems == 3

\* Number of archives handed to the extractor window
MaxArchives == 2

(***************************************************************************)
(* Tokens and file names.                                                  *)
(***************************************************************************)
Dot == "."

NumStr == <<"1", "2", "3", "4", "5", "6", "7", "8", "9">>

DigitToks == {NumStr[i] : i \in 1..Len(NumStr)}

\* str.lower() on a token
Lower(tok) ==
    CASE tok = "CON" -> "con"
      [] tok = "COM" -> "com"
      [] OTHER -> tok

IsDotIndex(name, i) == i \in 2..Len(name) /\ name[i] = Dot

\* os.path.splitext: split at the last dot that is not the leading character
SplitExt(name) ==
    LET ds == {i \in 1..Len(name) : IsDotIndex(name, i)}
    IN  IF ds = {}
        THEN [base |-> name, ext |-> <<>>]
        ELSE LET d == CHOOSE i \in ds : \A j \in ds : j <= i
             IN  [base |-> SubSeq(name, 1, d - 1),
                  ext  |-> SubSeq(name, d, Len(name))]

(***************************************************************************)
(* URLs (urllib.parse).  A URL is split the way urlparse splits it; a      *)
(* relative reference is a URL with an empty scheme.                       *)
(***************************************************************************)
MkUrl(scheme, netloc, rooted, ds, file, query) ==
    [scheme |-> scheme, netloc |-> netloc, rooted |-> rooted,
     dirs |-> ds, file |-> file, query |-> query]

EmptyUrl == MkUrl("", "", FALSE, <<>>, <<>>, "")

\* '"://" in url'
HasAuthority(url) == url.netloc # ""

\* schemes of urllib.parse.uses_relative that occur in the model
UsesRelative == {"http", "https", ""}

\* urllib.parse.urljoin(base, url)
UrlJoin(base, url) ==
    IF base = EmptyUrl THEN url
    ELSE IF url = EmptyUrl THEN base
    ELSE IF url.scheme # "" THEN url
    ELSE IF base.scheme \notin UsesRelative THEN url
    ELSE IF url.rooted
         THEN [url EXCEPT !.scheme = base.scheme, !.netloc = base.netloc]
    ELSE MkUrl(base.scheme, base.netloc, base.rooted,
               base.dirs \o url.dirs, url.file, url.query)

(***************************************************************************)
(* MIME types.                                                             *)
\* the spelling of a URL, as the tokens of its text
UrlStr(url) ==
    LET Join[i \in 0..Len(url.dirs)] ==
            IF i = 0 THEN <<>> ELSE Join[i - 1] \o <<url.dirs[i], "/">>
    IN  (IF url.scheme # "" THEN <<url.scheme, "://", url.netloc>> ELSE <<>>)
        \o (IF url.rooted THEN <<"/">> ELSE <<>>)
        \o Join[Len(url.dirs)]
        \o url.file
        \o (IF url.query # "" THEN <<"?", url.query>> ELSE <<>>)

RECURSIVE Replace(_, _, _)
\* str.replace(old, new) on a text of tokens: every occurrence, left to right
Replace(text, old, new) ==
    IF old = <<>> \/ Len(text) < Len(old) THEN text
    ELSE IF SubSeq(text, 1, Len(old)) = old
    THEN new \o Replace(SubSeq(text, Len(old) + 1, Len(text)), old, new)
    ELSE <<Head(text)>> \o Replace(Tail(text), old, new)

(***************************************************************************)
HtmlMimes == {"text/html", "application/xhtml+xml"}

IsHtmlMimeType(mime) == mime \in HtmlMimes

\* mimetypes.guess_extension with the types added at import
GuessExtension(mime) ==
    CASE mime = "text/html"       -> <<Dot, "html">>
      [] mime = "application/xhtml+xml" -> <<Dot, "xhtml">>
      [] mime = "text/css"        -> <<Dot, "css">>
      [] mime = "image/png"       -> <<Dot, "png">>
      [] mime = "text/javascript" -> <<Dot, "js">>
      [] OTHER                    -> <<>>

(***************************************************************************)
(* Resources and archives.                                                 *)
(***************************************************************************)
\* WebResource: data is the blob of bytes (blob) together with the
\* references (refs) its text holds when it is read as HTML
MkRes(url, mime, enc, blob, refs) ==
    [url |-> url, mime |-> mime, enc |-> enc,
     data |-> [blob |-> blob, refs |-> refs]]

EmptyMap == [u \in {} |-> <<>>]

\* WebArchive.__init__: main is <<>> (None) or <<res>>
NewArchive == [main |-> <<>>, subs |-> <<>>, kids |-> <<>>, lp |-> EmptyMap]

HasMain(a) == a.main # <<>>

MapPut(m, k, v) == [x \in DOMAIN m \cup {k} |-> IF x = k THEN v ELSE m[x]]

MapValues(m) == {m[k] : k \in DOMAIN m}

(***************************************************************************)
(* The local path allocator.                                               *)
(***************************************************************************)
BadChars == {"%", "<", ">", ":", "\"", "/", "\\", "|", "?", "*"}

\* base.replace(c, "_") for each of the characters above
Sanitize(base) ==
    [i \in 1..Len(base) |-> IF base[i] \in BadChars THEN "_" ELSE base[i]]

\* the DOS device names
IsReservedName(base) ==
    \/ Len(base) = 1 /\ Lower(base[1]) \in {"con", "prn", "aux", "nul"}
    \/ /\ Len(base) = 2
       /\ Lower(base[1]) \in {"com", "lpt"}
       /\ base[2] \in DigitToks

\* the base name chosen from the URL, before sanitizing
UrlBase(url) ==
    LET b == IF url = EmptyUrl THEN <<>>
             ELSE IF url.scheme = "data" THEN <<"data_url">>
             ELSE SplitExt(url.file).base
    IN  IF b = <<>> THEN <<"blank_url">> ELSE b

SafeBase(url) ==
    LET b == Sanitize(UrlBase(url))
    IN  IF IsReservedName(b) THEN b \o <<"_">> ELSE b

RECURSIVE CopyName(_, _, _, _)
\* the while loop appending a copy number
CopyName(base, ext, taken, copy_num) ==
    LET local_path == IF copy_num = 1
                      THEN base \o ext
                      ELSE base \o <<Dot, NumStr[copy_num]>> \o ext
    IN  IF local_path \in taken /\ copy_num < Len(NumStr)
        THEN CopyName(base, ext, taken, copy_num + 1)
        ELSE local_path

\* WebArchive._make_local_path: the name given to res under the table lp
MakeLocalPath(lp, res) ==
    CopyName(SafeBase(res.url), GuessExtension(res.mime), MapValues(lp), 1)

\* the resources _make_local_paths walks: None is <<>>
\* a table that also takes in the subresources of the subframe archives
LocalPathResources_Deep(a) ==
    LET D[i \in 0..Len(a.kids)] ==
            IF i = 0 THEN <<>>
            ELSE D[i - 1] \o <<a.kids[i].main>>
                 \o [j \in 1..Len(a.kids[i].subs) |-> <<a.kids[i].subs[j]>>]
    IN  (IF HasMain(a) THEN <<a.main>> ELSE <<>>)
        \o [i \in 1..Len(a.subs) |-> <<a.subs[i]>>]
        \o D[Len(a.kids)]

LocalPathResources(a) ==
    (IF HasMain(a) THEN <<a.main>> ELSE <<>>)
    \o [i \in 1..Len(a.subs) |-> <<a.subs[i]>>]
    \o [i \in 1..Len(a.kids) |-> a.kids[i].main]

RECURSIVE FillLocalPaths_Renew(_, _, _)
\* a loop that makes a path for every resource, also for a URL it has one for
FillLocalPaths_Renew(lp, resources, i) ==
    IF i > Len(resources) THEN [err |-> "none", lp |-> lp]
    ELSE IF resources[i] = <<>>
         THEN [err |-> "AttributeError", lp |-> lp]
    ELSE LET res == resources[i][1]
         IN  FillLocalPaths_Renew(MapPut(lp, res.url, MakeLocalPath(lp, res)),
                                  resources, i + 1)

RECURSIVE FillLocalPaths(_, _, _)
FillLocalPaths(lp, resources, i) ==
    IF i > Len(resources) THEN [err |-> "none", lp |-> lp]
    ELSE IF resources[i] = <<>>
         THEN [err |-> "AttributeError", lp |-> lp]
    ELSE LET res == resources[i][1]
         IN  IF res.url \in DOMAIN lp
             THEN FillLocalPaths(lp, resources, i + 1)
             ELSE FillLocalPaths(MapPut(lp, res.url, MakeLocalPath(lp, res)),
                                 resources, i + 1)

\* WebArchive._make_local_paths: the table afterwards, or the error raised
MakeLocalPaths(a) == FillLocalPaths(a.lp, LocalPathResources(a), 1)

(***************************************************************************)
(* Lookups by URL.  A result is <<>> when the lookup raises                *)
(* WebArchiveError and <<x>> when it returns x.                            *)
(***************************************************************************)
\* WebArchive.get_local_path
GetLocalPath(a, url) ==
    IF url \in DOMAIN a.lp THEN <<a.lp[url]>> ELSE <<>>

\* WebArchive.get_subresource: the first subresource with that URL
GetSubresource(a, url) ==
    LET hits == {i \in 1..Len(a.subs) : a.subs[i].url = url}
    IN  IF ~HasAuthority(url) \/ hits = {} THEN <<>>
        ELSE <<a.subs[CHOOSE i \in hits : \A j \in hits : i <= j]>>

\* WebArchive.get_subframe_archive: the index of the first subframe archive
\* whose main resource has that URL; the loop reads main_resource.url of
\* every archive it passes, which fails on an archive without one
GetSubframeArchive(a, url) ==
    LET hits  == {i \in 1..Len(a.kids) :
                     HasMain(a.kids[i]) /\ a.kids[i].main[1].url = url}
        first == IF hits = {} THEN Len(a.kids) + 1
                 ELSE CHOOSE i \in hits : \A j \in hits : i <= j
        bad   == {i \in 1..Len(a.kids) : i < first /\ ~HasMain(a.kids[i])}
    IN  IF ~HasAuthority(url) THEN [err |-> "WebArchiveError", kid |-> 0]
        ELSE IF bad # {} THEN [err |-> "AttributeError", kid |-> 0]
        ELSE IF hits = {} THEN [err |-> "WebArchiveError", kid |-> 0]
        ELSE [err |-> "none", kid |-> first]

(***************************************************************************)
(* Rewritten attribute values and written content.                         *)
(***************************************************************************)
\* the subresource_dir argument: None, or a directory name ("" is <<>>)
NoDir == [none |-> TRUE]
Dir(name) == [none |-> FALSE, name |-> name]

\* a URL written into the output
UrlVal(url) == [kind |-> "url", url |-> url]

\* "{0}/{1}".format(subresource_dir, local_path), or the bare local_path
PathVal(dirname, local_path) ==
    [kind |-> "path", dir |-> dirname, name |-> local_path]

\* "data:{0};base64,{1}".format(mime_type, b64encode(data))
DataUri(mime, data) ==
    [kind |-> "data", mime |-> mime, payload |-> [b64 |-> data]]

\* "<style>{0}</style>".format(content), content being <<>> for ""
StyleVal(content) == [kind |-> "style", content |-> content]

\* ", ".join(srcset): the entries "{src} {res}" of a rewritten srcset
SrcsetVal(items) == [kind |-> "srcset", items |-> items]

\* an attribute that _build_starttag leaves out of the tag
Omitted == [kind |-> "omitted"]

\* bytes(res)
RawBytes(res) == [form |-> "bytes", data |-> res.data]

\* bytes(text, encoding=enc) and what a text-mode file opened with enc holds
Encode(text, enc) == [form |-> "text", enc |-> enc, text |-> text]

\* WebArchive._get_absolute_url with the default base
AbsoluteUrl(a, url) == UrlJoin(a.main[1].url, url)

\* MainResourceProcessor._resource_url / WebArchive._get_local_url with a
\* directory name: the local path if the table has one, else the absolute URL
ResourceUrl(a, dirname, orig_url) ==
    LET abs_url == AbsoluteUrl(a, orig_url)
        found   == GetLocalPath(a, abs_url)
    IN  IF found # <<>> THEN PathVal(dirname, found[1]) ELSE UrlVal(abs_url)

Ok(v) == [err |-> "none", val |-> v]
Raise(e) == [err |-> e, val |-> <<>>]

\* the codecs Python can look up by the names the model uses
KnownCodecs == {"utf-8"}

\* bytes(text, encoding=enc), enc being <<>> for None
EncodeText(text, enc) ==
    IF enc = <<>> THEN Raise("TypeError")
    ELSE IF enc[1] \notin KnownCodecs THEN Raise("LookupError")
    ELSE Ok(Encode(text, enc))

\* the depth at which the interpreter gives up a recursion
RecursionLimit == MaxSize + 2

\* the rest F of a computation after a call that returned r, unless the
\* call raised
Then(r, F(_)) == IF r.err # "none" THEN r ELSE F(r.val)

\* "data:{0};base64,{1}" of bytes(text, encoding=enc)
TextDataUri(mime, text, enc) ==
    Then(EncodeText(text, enc), LAMBDA data : Ok(DataUri(mime, data)))

RECURSIVE ToHtmlRec(_, _), ToDataUriRec(_, _, _), ProcessAttrValue(_, _, _, _),
          ProcessAttrs(_, _, _, _, _), ProcessHtmlResource(_, _, _, _),
          StyleSheetLoop(_, _, _, _, _, _), ProcessStyleSheet(_, _, _, _),
          BuildStartTag(_, _, _, _)

\* the loop of process_style_sheet over the url() values found in the
\* original text: content is the text so far, one entry per url() value;
\* local_paths is <<>> for None, else <<table>>.  Without local paths the
\* data URI of the subresource with the URL is computed (replacement), and
\* the absolute URL is what is substituted.
StyleSheetLoop(a, res, local_paths, fuel, content, i) ==
    IF i > Len(res.data.refs) THEN Ok(content)
    ELSE LET ref     == res.data.refs[i].val
             match   == UrlStr(ref)
             abs_url == UrlJoin(res.url, ref)
             linked  == local_paths # <<>> /\ DOMAIN local_paths[1] # {}
             hits    == {k \in 1..Len(a.subs) : a.subs[k].url = abs_url}
             new     == IF linked /\ abs_url \in DOMAIN local_paths[1]
                        THEN local_paths[1][abs_url]
                        ELSE UrlStr(abs_url)
             replacement ==
                 IF match = <<>> \/ linked \/ hits = {}
                 THEN Ok(UrlVal(abs_url))
                 ELSE ToDataUriRec(a,
                          a.subs[CHOOSE k \in hits : \A j \in hits : k <= j],
                          fuel)
         IN  Then(replacement,
                  LAMBDA unused :
                      StyleSheetLoop(a, res, local_paths, fuel,
                          IF match = <<>> THEN content
                          ELSE [k \in 1..Len(content) |->
                                    Replace(content[k], match, new)],
                          i + 1))

\* util.process_style_sheet(res, subresources, local_paths), the
\* subresources being those of archive a: the rewritten text; str(res)
\* fails first if the text encoding is None or names no codec
ProcessStyleSheet(a, res, local_paths, fuel) ==
    IF fuel = 0 THEN Raise("RecursionError")
    ELSE IF res.mime # "text/css" THEN Raise("TypeError")
    ELSE IF res.enc = <<>> THEN Raise("TypeError")
    ELSE IF res.enc[1] \notin KnownCodecs THEN Raise("LookupError")
    ELSE Then(StyleSheetLoop(a, res, local_paths, fuel,
                             [k \in 1..Len(res.data.refs) |->
                                  UrlStr(res.data.refs[k].val)],
                             1),
              LAMBDA vals : Ok([blob |-> res.data.blob, vals |-> vals]))

\* WebResource.to_data_uri, res being a resource of archive a
ToDataUriRec(a, res, fuel) ==
    IF fuel = 0 THEN Raise("RecursionError")
    ELSE IF ~HasMain(a) THEN Raise("AttributeError")
    ELSE IF res.url = a.main[1].url
         THEN Then(ToHtmlRec(a, fuel - 1),
                   LAMBDA text : TextDataUri(res.mime, text, res.enc))
    ELSE IF res.mime = "text/css"
         THEN Then(ProcessStyleSheet(a, res, <<>>, fuel - 1),
                   LAMBDA text : TextDataUri(res.mime, text, res.enc))
    ELSE Ok(DataUri(res.mime, RawBytes(res)))

\* a rewriter that treats a href and form action like src
ProcessAttrValue_NoLinkRule(a, at, sdir, fuel) ==
    IF ~sdir.none /\ sdir.name # <<>>
    THEN Ok(ResourceUrl(a, sdir.name, at.val))
    ELSE LET found == GetSubresource(a, AbsoluteUrl(a, at.val))
         IN  IF found = <<>> THEN Ok(UrlVal(at.val))
             ELSE ToDataUriRec(a, found[1], fuel)

\* MainResourceProcessor._process_attr_value; sdir is the processor's root
ProcessAttrValue(a, at, sdir, fuel) ==
    IF (at.tag = "a" /\ at.attr = "href") \/ (at.tag = "form" /\ at.attr = "action")
    THEN Ok(UrlVal(AbsoluteUrl(a, at.val)))
    ELSE IF at.attr = "src" \/ (at.tag = "link" /\ at.attr = "href")
    THEN IF ~sdir.none /\ sdir.name # <<>>
         THEN Ok(ResourceUrl(a, sdir.name, at.val))
         ELSE IF at.tag \in {"frame", "iframe"}
         THEN LET sf == GetSubframeArchive(a, AbsoluteUrl(a, at.val))
              IN  IF sf.err = "WebArchiveError" THEN Ok(UrlVal(at.val))
                  ELSE IF sf.err # "none" THEN Raise(sf.err)
                  ELSE Then(ToHtmlRec(a.kids[sf.kid], fuel - 1),
                            LAMBDA text :
                                TextDataUri(a.kids[sf.kid].main[1].mime, text,
                                            a.kids[sf.kid].main[1].enc))
         ELSE LET found == GetSubresource(a, AbsoluteUrl(a, at.val))
              IN  IF found = <<>> THEN Ok(UrlVal(at.val))
                  ELSE ToDataUriRec(a, found[1], fuel)
    ELSE IF at.attr = "srcset"
    THEN IF \E k \in 1..Len(at.srcset) : at.srcset[k].desc = <<>>
         THEN Raise("ValueError")
         ELSE Ok(SrcsetVal([k \in 1..Len(at.srcset) |->
                  [src  |-> ResourceUrl(a, IF sdir.none THEN <<>> ELSE sdir.name,
                                        at.srcset[k].src),
                   desc |-> at.srcset[k].desc]]))
    ELSE Ok(UrlVal(at.val))

\* MainResourceProcessor._build_starttag for the tag that carries at: a
\* <link rel="stylesheet"> becomes a <style> element when the root is None,
\* and the srcset of an <img> is left out
BuildStartTag(a, at, sdir, fuel) ==
    IF sdir.none /\ at.tag = "link" /\ Lower(at.rel) = "stylesheet"
    THEN LET found == GetSubresource(a, AbsoluteUrl(a, at.val))
         IN  IF found = <<>> THEN Ok(StyleVal(<<>>))
             ELSE Then(ProcessStyleSheet(a, found[1], <<>>, fuel - 1),
                       LAMBDA text : Ok(StyleVal(<<text>>)))
    ELSE IF at.tag = "img" /\ at.attr = "srcset" THEN Ok(Omitted)
    ELSE ProcessAttrValue(a, at, sdir, fuel)

\* the attribute values of the document, rewritten in document order
ProcessAttrs(a, refs, sdir, fuel, i) ==
    IF i > Len(refs) THEN Ok(<<>>)
    ELSE Then(BuildStartTag(a, refs[i], sdir, fuel),
              LAMBDA v :
                  Then(ProcessAttrs(a, refs, sdir, fuel, i + 1),
                       LAMBDA rest : Ok(<<v>> \o rest)))

\* util.process_main_resource / process_html_resource: the rewritten text
ProcessHtmlResource(a, res, sdir, fuel) ==
    IF fuel = 0 THEN Raise("RecursionError")
    ELSE IF ~IsHtmlMimeType(res.mime) THEN Raise("TypeError")
    ELSE Then(ProcessAttrs(a, res.data.refs, sdir, fuel, 1),
              LAMBDA vals : Ok([blob |-> res.data.blob, vals |-> vals]))

\* to_html rewriting as a linked extraction into page_files would
ToHtmlRec_Linked(a, fuel) ==
    IF ~HasMain(a) THEN Raise("WebArchiveError")
    ELSE ProcessHtmlResource(a, a.main[1], Dir(<<"page", "_files">>), fuel)

\* WebArchive.to_html
ToHtmlRec(a, fuel) ==
    IF ~HasMain(a) THEN Raise("WebArchiveError")
    ELSE ProcessHtmlResource(a, a.main[1], NoDir, fuel)

ToHtml(a) == ToHtmlRec(a, RecursionLimit)

ToDataUri(a, res) == ToDataUriRec(a, res, RecursionLimit)

\* _extract_main_resource without its check for a main resource
ExtractMainResource_Unchecked(a, sdir) ==
    IF ~HasMain(a) THEN Raise("AttributeError")
    ELSE IF IsHtmlMimeType(a.main[1].mime)
    THEN Then(ProcessHtmlResource(a, a.main[1], sdir, RecursionLimit),
              LAMBDA text : Ok(Encode(text, a.main[1].enc)))
    ELSE Ok(RawBytes(a.main[1]))

\* WebArchive._extract_main_resource: what is written to output_path
ExtractMainResource(a, sdir) ==
    IF ~HasMain(a) THEN Raise("WebArchiveError")
    ELSE IF IsHtmlMimeType(a.main[1].mime)
    THEN Then(ProcessHtmlResource(a, a.main[1], sdir, RecursionLimit),
              LAMBDA text : Ok(Encode(text, a.main[1].enc)))
    ELSE Ok(RawBytes(a.main[1]))

\* WebArchive._extract_subresource: what is written to output_path
ExtractSubresource(a, res) ==
    IF res.mime = "text/css"
    THEN Then(ProcessStyleSheet(a, res, <<a.lp>>, RecursionLimit),
              LAMBDA text : Ok(Encode(text, res.enc)))
    ELSE IF IsHtmlMimeType(res.mime)
    THEN Then(ProcessHtmlResource(a, res, Dir(<<>>), RecursionLimit),
              LAMBDA text : Ok(Encode(text, res.enc)))
    ELSE Ok(RawBytes(res))

\* a count that takes every subframe archive for one resource
ResourceCount_Shallow(a) ==
    (IF HasMain(a) THEN 1 ELSE 0) + Len(a.subs) + Len(a.kids)

\* WebArchive.resource_count
RECURSIVE ResourceCount(_)
ResourceCount(a) ==
    LET kid_counts == [i \in 1..Len(a.kids) |-> ResourceCount(a.kids[i])]
        Sum[i \in 0..Len(a.kids)] ==
            IF i = 0 THEN 0 ELSE Sum[i - 1] + kid_counts[i]
    IN  (IF HasMain(a) THEN 1 ELSE 0) + Len(a.subs) + Sum[Len(a.kids)]

(***************************************************************************)
(* Building resources and archives from the decoded property list.         *)
(***************************************************************************)
TextSlashMimes == {"text/html", "text/css", "text/javascript", "text/plain"}

\* mime_type.startswith("text/")
StartsWithText(mime) == mime \in TextSlashMimes

\* util.is_text_mime_type
IsTextMimeType(mime) == StartsWithText(mime) \/ IsHtmlMimeType(mime)

\* str.lower() on an encoding name
LowerName(name) == IF name = "UTF-8" THEN "utf-8" ELSE name

\* WebResource.__init__ with text_encoding = None: the encoding it stores
InitEncoding(mime) == IF IsTextMimeType(mime) THEN <<"utf-8">> ELSE <<>>

\* WebResource._create_from_plist_data; pr.encName is <<>> when the plist
\* has no WebResourceTextEncodingName
CreateResource(pr) ==
    LET enc == IF pr.encName # <<>> THEN <<LowerName(pr.encName[1])>>
               ELSE IF StartsWithText(pr.mime) THEN <<"utf-8">>
               ELSE InitEncoding(pr.mime)
    IN  MkRes(pr.url, pr.mime, enc, pr.blob, pr.refs)

\* WebResource.__str__: str(self._data, encoding=self._text_encoding)
Str(res) ==
    IF ~IsTextMimeType(res.mime) THEN Raise("TypeError")
    ELSE IF res.enc = <<>> THEN Raise("TypeError")
    ELSE IF res.enc[1] \notin KnownCodecs THEN Raise("LookupError")
    ELSE Ok([text |-> res.data, enc |-> res.enc[1]])

\* WebResource.__bytes__
Bytes(res) == Ok(res.data)

RECURSIVE PopulateFromPlistData(_)
\* WebArchive._populate_from_plist_data, children first
PopulateFromPlistData(p) ==
    LET a == [main |-> <<CreateResource(p.main)>>,
              subs |-> [i \in 1..Len(p.subs) |-> CreateResource(p.subs[i])],
              kids |-> [i \in 1..Len(p.kids) |->
                            PopulateFromPlistData(p.kids[i])],
              lp   |-> EmptyMap]
    IN  [a EXCEPT !.lp = MakeLocalPaths(a).lp]

RECURSIVE BuildByHand(_, _, _)
\* An archive assembled through the constructor WebArchive(parent) and the
\* subresources / subframe_archives lists, without _populate_from_plist_data:
\* the archive at path `missing` is left without a main resource and no
\* _make_local_paths has run yet.
BuildByHand(p, path, missing) ==
    [main |-> IF path = missing THEN <<>> ELSE <<CreateResource(p.main)>>,
     subs |-> [i \in 1..Len(p.subs) |-> CreateResource(p.subs[i])],
     kids |-> [i \in 1..Len(p.kids) |->
                   BuildByHand(p.kids[i], Append(path, i), missing)],
     lp   |-> EmptyMap]

(***************************************************************************)
(* The archives the model is run on.                                       *)
(***************************************************************************)
FileName(word, ext) == <<word, Dot, ext>>

U_index == MkUrl("https", "x", TRUE, <<>>, FileName("index", "html"), "")
U_app   == MkUrl("https", "x", TRUE, <<>>, FileName("app", "js"), "")
U_frame == MkUrl("https", "x", TRUE, <<>>, FileName("frame", "html"), "")
U_pic   == MkUrl("https", "x", TRUE, <<"a">>, FileName("pic", "png"), "")
U_pic_q == MkUrl("https", "x", TRUE, <<"a">>, FileName("pic", "png"), "v=2")
U_ext   == MkUrl("https", "y", TRUE, <<>>, FileName("other", "png"), "")

\* relative references as they are spelled in a document
R_pic   == MkUrl("", "", FALSE, <<"a">>, FileName("pic", "png"), "")
R_frame == MkUrl("", "", FALSE, <<>>, FileName("frame", "html"), "")

Attr(tag, attr, val) == [tag |-> tag, attr |-> attr, val |-> val, rel |-> ""]

\* <link rel=... href=...>
LinkAttr(rel, val) == [tag |-> "link", attr |-> "href", val |-> val, rel |-> rel]

\* the URLs get_local_path is asked for
LookupUrls == {U_pic, U_frame, U_ext}

\* a url() value of a style sheet
CssUrl(val) == [tag |-> "", attr |-> "url()", val |-> val, rel |-> ""]

RootRefs == << Attr("img", "src", R_pic),
               Attr("img", "src", U_ext),
               Attr("iframe", "src", R_frame),
               Attr("img", "src", EmptyUrl),
               Attr("img", "src", R_frame) >>

KidRefs == << Attr("img", "src", R_pic) >>

PlistRes(url, mime, refs) ==
    [url |-> url, mime |-> mime, encName |-> <<>>, blob |-> <<>>,
     refs |-> refs]

RootMains == { PlistRes(U_index, "text/html", RootRefs),
               PlistRes(U_app, "text/javascript", <<>>) }

KidMains == { PlistRes(U_frame, "text/html", KidRefs) }

SubPool == { PlistRes(U_pic, "image/png", <<>>),
             PlistRes(U_pic_q, "image/png", <<>>) }

RECURSIVE SubSeqs(_)
\* the subresource lists of length k
SubSeqs(k) ==
    IF k = 0 THEN {<<>>}
    ELSE {Append(s, r) : s \in SubSeqs(k - 1), r \in SubPool}

RECURSIVE Plists(_, _), KidSeqs(_)
\* the property lists of size n (archives plus subresources)
Plists(n, mains) ==
    UNION { { [main |-> m, subs |-> s, kids |-> ks] :
                m \in mains, s \in SubSeqs(k), ks \in KidSeqs(n - 1 - k) } :
            k \in 0..(n - 1) }

KidSeqs(m) ==
    IF m = 0 THEN {<<>>}
    ELSE UNION { { <<p>> \o rest : p \in Plists(j, KidMains),
                                   rest \in KidSeqs(m - j) } :
                 j \in 1..m }

RECURSIVE StampPlist(_, _)
\* every resource carries bytes of its own: its place in the tree
StampPlist(p, path) ==
    [main |-> [p.main EXCEPT !.blob = <<path, 0>>],
     subs |-> [i \in 1..Len(p.subs) |-> [p.subs[i] EXCEPT !.blob = <<path, i>>]],
     kids |-> [i \in 1..Len(p.kids) |-> StampPlist(p.kids[i], Append(path, i))]]

InputPlists ==
    UNION { {StampPlist(p, <<>>) : p \in Plists(n, RootMains)} : n \in 1..MaxSize }

\* A page with a style sheet: the URLs and the references of its resources
U_css   == MkUrl("https", "x", TRUE, <<"a">>, FileName("style", "css"), "")
U_self  == MkUrl("https", "x", TRUE, <<"a">>, FileName("self", "css"), "")
U_page  == MkUrl("https", "x", TRUE, <<"a">>, FileName("page", "html"), "")
U_note  == MkUrl("https", "x", TRUE, <<"a">>, FileName("note", "txt"), "")
R_css   == MkUrl("", "", FALSE, <<"a">>, FileName("style", "css"), "")
R_self  == MkUrl("", "", FALSE, <<"a">>, FileName("self", "css"), "")
R_none  == MkUrl("", "", FALSE, <<"a">>, FileName("none", "png"), "")

\* references as a style sheet in https://x/a/ spells them
L_pic   == MkUrl("", "", FALSE, <<>>, FileName("pic", "png"), "")
L_pic_q == MkUrl("", "", FALSE, <<>>, FileName("pic", "png"), "v=2")
L_self  == MkUrl("", "", FALSE, <<>>, FileName("self", "css"), "")

StyleRefs ==
    << LinkAttr("stylesheet", R_self), LinkAttr("stylesheet", R_css),
       Attr("iframe", "src", R_frame),
       Attr("img", "src", R_pic), Attr("img", "src", U_pic),
       Attr("a", "href", R_pic), Attr("form", "action", U_pic),
       LinkAttr("icon", R_pic), Attr("img", "src", R_none) >>

CssRefs == << CssUrl(L_pic), CssUrl(L_pic_q), CssUrl(U_ext) >>

StyleMain == PlistRes(U_index, "text/html", StyleRefs)

\* the subresources a page is saved with: pictures, a style sheet (one
\* that also names itself), a second document, a text whose encoding
\* name is the empty string, and a resource saved under the page's URL
StylePool ==
    { PlistRes(U_pic, "image/png", <<>>),
      PlistRes(U_pic_q, "image/png", <<>>),
      [PlistRes(U_css, "text/css", CssRefs) EXCEPT !.encName = <<"UTF-8">>],
      PlistRes(U_self, "text/css", <<CssUrl(L_self)>> \o CssRefs),
      PlistRes(U_page, "text/html", <<Attr("img", "src", R_pic)>>),
      [PlistRes(U_note, "text/plain", <<>>) EXCEPT !.encName = <<"">>],
      PlistRes(U_index, "text/plain", <<>>) }

RECURSIVE StyleSubs(_)
\* the sequences of k different subresources
StyleSubs(k) ==
    IF k = 0 THEN {<<>>}
    ELSE {Append(s, r) : s \in StyleSubs(k - 1), r \in StylePool}
         \ {Append(s, s[i]) : s \in StyleSubs(k - 1), i \in 1..(k - 1)}

\* the page with up to MaxSize - 1 subresources, or with a subframe
\* archive and one subresource less
StylePlists ==
    UNION { { [main |-> StyleMain, subs |-> s, kids |-> ks] :
                s \in StyleSubs(k),
                ks \in {kk \in { <<>>,
                                 << [main |-> PlistRes(U_frame, "text/html", KidRefs),
                                     subs |-> <<>>, kids |-> <<>>] >> } :
                           1 + k + Len(kk) <= MaxSize} } :
            k \in 0..(MaxSize - 1) }

StyleTrees == {PopulateFromPlistData(StampPlist(p, <<>>)) : p \in StylePlists}

(***************************************************************************)
(* Documents fed to the rewriter item by item: doctype declarations and    *)
(* start tags, each tag with the one attribute that matters.               *)
(***************************************************************************)
\* an item: text holds the tokens of a declaration, srcset the entries of
\* a srcset value, val the URL of any other attribute
MkItem(tag, attr, val, rel, empty, text, srcset) ==
    [tag |-> tag, attr |-> attr, val |-> val, rel |-> rel, empty |-> empty,
     text |-> text, srcset |-> srcset]

\* <!decl>
Decl(text) == MkItem("!", "", EmptyUrl, "", FALSE, text, <<>>)

\* <tag attr="val">, or <tag attr="val" /> if empty
Tag(tag, attr, val, empty) == MkItem(tag, attr, val, "", empty, <<>>, <<>>)

\* <tag srcset="...">, or <tag srcset="..." /> if empty
SrcsetTag(tag, entries, empty) ==
    MkItem(tag, "srcset", EmptyUrl, "", empty, <<>>, entries)

\* <link rel=... href=...>, or <link rel=... href=... /> if empty
LinkTag(rel, val, empty) == MkItem("link", "href", val, rel, empty, <<>>, <<>>)

\* one entry of a srcset value: "src desc", or "src" alone (desc is <<>>)
Entry(src, desc) == [src |-> src, desc |-> desc]

D_html5  == <<"DOCTYPE html">>
D_xhtml1 == <<"DOCTYPE html PUBLIC \"-", "//", "W3C", "//", "DTD XHTML", " ",
              "1.0 Strict", "//", "EN\"">>
D_rdfa   == <<"DOCTYPE html PUBLIC \"-", "//", "W3C", "//", "DTD XHTML",
              "+RDFa 1.0", "//", "EN\"">>

PageItems ==
    { Decl(D_html5), Decl(D_xhtml1), Decl(D_rdfa),
      Tag("img", "src", R_pic, FALSE),
      Tag("br", "", EmptyUrl, TRUE),
      Tag("div", "", EmptyUrl, TRUE),
      Tag("div", "", EmptyUrl, FALSE),
      SrcsetTag("img", <<Entry(R_pic, <<"2x">>)>>, FALSE),
      SrcsetTag("source",
                <<Entry(R_pic, <<"1x">>), Entry(U_ext, <<"2x">>)>>, TRUE),
      SrcsetTag("source", <<Entry(R_pic, <<>>)>>, FALSE),
      LinkTag("stylesheet", R_css, TRUE) }

RECURSIVE PageDocs(_)
\* the documents of n items
PageDocs(n) ==
    IF n = 0 THEN {<<>>}
    ELSE {Append(d, it) : d \in PageDocs(n - 1), it \in PageItems}

\* a page served as HTML or as XHTML, saved with a picture and a style sheet
PagePlists ==
    { [main |-> PlistRes(U_index, mime, doc),
       subs |-> << PlistRes(U_pic, "image/png", <<>>),
                   PlistRes(U_css, "text/css", <<>>) >>,
       kids |-> <<>>] :
      mime \in HtmlMimes, doc \in UNION {PageDocs(n) : n \in 0..MaxItems} }

PageTrees == {PopulateFromPlistData(StampPlist(p, <<>>)) : p \in PagePlists}

(***************************************************************************)
(* Style sheets handed to process_style_sheet on their own.                *)
(***************************************************************************)
L_none == MkUrl("", "", FALSE, <<>>, FileName("none", "png"), "")

\* url() values: the archived picture spelled relative and absolute, a
\* picture that is not archived spelled relative, and an external URL
CssLiterals == {L_pic, U_pic, L_pic_q, L_none, U_ext}

RECURSIVE CssRefSeqs(_)
\* the style sheets with n url() values
CssRefSeqs(n) ==
    IF n = 0 THEN {<<>>}
    ELSE {Append(r, CssUrl(u)) : r \in CssRefSeqs(n - 1), u \in CssLiterals}

\* a page saved with a picture and one style sheet
CssPlists ==
    { [main |-> PlistRes(U_index, "text/html", <<>>),
       subs |-> << PlistRes(U_pic, "image/png", <<>>),
                   PlistRes(U_css, "text/css", refs) >>,
       kids |-> <<>>] :
      refs \in UNION {CssRefSeqs(n) : n \in 0..MaxItems} }

CssTrees == {PopulateFromPlistData(StampPlist(p, <<>>)) : p \in CssPlists}

(***************************************************************************)
(* Pages with two frames whose documents have the same stem.               *)
(***************************************************************************)
U_framex == MkUrl("https", "x", TRUE, <<>>, FileName("frame", "xhtml"), "")
U_pic_y  == MkUrl("https", "y", TRUE, <<"b">>, FileName("pic", "png"), "")

\* frame.html with the picture https://x/a/pic.png, and frame.xhtml with
\* the picture https://y/b/pic.png
FrameKids ==
    { [main |-> PlistRes(U_frame, "text/html", KidRefs),
       subs |-> << PlistRes(U_pic, "image/png", <<>>) >>, kids |-> <<>>],
      [main |-> PlistRes(U_framex, "application/xhtml+xml", <<>>),
       subs |-> << PlistRes(U_pic_y, "image/png", <<>>) >>, kids |-> <<>>] }

\* the page with no subresource, with a picture, or with a document
\* saved under the URL of the first frame, and with one frame or both
FramePlists ==
    { [main |-> PlistRes(U_index, "text/html",
                         <<Attr("iframe", "src", R_frame)>>),
       subs |-> s, kids |-> ks] :
      s \in { <<>>, << PlistRes(U_pic, "image/png", <<>>) >>,
              << PlistRes(U_frame, "text/html", <<>>) >> },
      ks \in { <<k>> : k \in FrameKids }
             \cup { ks2 \in { <<k1, k2>> : k1 \in FrameKids, k2 \in FrameKids } :
                        ks2[1] # ks2[2] } }

FrameTrees == {PopulateFromPlistData(StampPlist(p, <<>>)) : p \in FramePlists}

RECURSIVE NodePaths(_, _)
\* the paths (child indices from the root) of the archives of a tree
NodePaths(a, path) ==
    {path} \cup UNION { NodePaths(a.kids[i], Append(path, i)) :
                        i \in 1..Len(a.kids) }

\* well-formed archives read from a property list, and archives built by
\* hand in which one archive has no main resource
InputTrees ==
    {PopulateFromPlistData(p) : p \in InputPlists}
    \cup UNION { {BuildByHand(p, <<>>, m) : m \in NodePaths(p, <<>>)} :
                 p \in InputPlists }

(***************************************************************************)
(* WebArchive.extract as a state machine.  One activation record per call  *)
(* of extract(); a step ends where extract calls out: to canceled_cb,      *)
(* before_cb, the writer of one resource, after_cb, a nested extract().    *)
(***************************************************************************)
RECURSIVE At(_, _)
\* the archive at a path of child indices
At(a, path) == IF path = <<>> THEN a ELSE At(a.kids[Head(path)], Tail(path))

RECURSIVE SetLp(_, _, _)
\* the tree with the _local_paths of the archive at path replaced
SetLp(a, path, lp) ==
    IF path = <<>> THEN [a EXCEPT !.lp = lp]
    ELSE [a EXCEPT !.kids[Head(path)] = SetLp(a.kids[Head(path)], Tail(path), lp)]

\* a file path: the directories from the working directory, and the basename
MkPath(dirnames, name) == [dir |-> dirnames, name |-> name]

\* where the caller asks for the page
RootOut == MkPath(<< <<"out">> >>, FileName("page", "html"))

\* "{0}_files".format(base), base being the output basename without extension
SubresourceDirBase(out) == SplitExt(out.name).base \o <<"_files">>

\* os.path.join(os.path.dirname(output_path), subresource_dir_base)
SubresourceDir(out) == Append(out.dir, SubresourceDirBase(out))

\* the callbacks a caller may pass
CallbackSets ==
    { [before |-> TRUE,  after |-> TRUE,  cancel |-> TRUE],
      [before |-> TRUE,  after |-> TRUE,  cancel |-> FALSE],
      [before |-> FALSE, after |-> FALSE, cancel |-> FALSE] }

Frame(node, out, embed, cb, pc) ==
    [node |-> node, out |-> out, embed |-> embed, cb |-> cb,
     pc |-> pc, i |-> 1]

Event(ev, node, res, path, val) ==
    [ev |-> ev, node |-> node, res |-> res, path |-> path, val |-> val]

Top == stack[Len(stack)]

Running == status = "running" /\ stack # <<>>

SetTop(f) == [stack EXCEPT ![Len(stack)] = f]

Pop == SubSeq(stack, 1, Len(stack) - 1)

\* where extract() starts: at the first "if canceled_cb and canceled_cb()"
StartPc(cb) == IF cb.cancel THEN "start" ELSE "main_before"

\* the head of the subresource loop, then of the subframe loop
KidLoopPc(a, cb, j) ==
    IF j > Len(a.kids) THEN "ret"
    ELSE IF cb.cancel THEN "kid_poll" ELSE "kid_call"

SubLoopPc(a, cb, i) ==
    IF i > Len(a.subs) THEN KidLoopPc(a, cb, 1)
    ELSE IF cb.cancel THEN "sub_poll" ELSE "sub_before"

\* the frame at the head of the subresource loop with index i
AtSubLoop(f, a, i) ==
    [f EXCEPT !.pc = SubLoopPc(a, f.cb, i),
              !.i = IF i > Len(a.subs) THEN 1 ELSE i]

\* an exception that the caller of a nested extract() catches: only the
\* innermost activation ends
Fail_Caught(e) ==
    /\ status' = IF Len(stack) = 1 THEN "failed" ELSE status
    /\ err' = e
    /\ stack' = SubSeq(stack, 1, Len(stack) - 1)

\* an exception leaves every activation of extract()
Fail(e) ==
    /\ status' = "failed"
    /\ err' = e
    /\ stack' = <<>>

\* return from the innermost extract()
ReturnFrom ==
    /\ stack' = Pop
    /\ status' = IF Len(stack) = 1 THEN "done" ELSE status
    /\ err' = err

\* extract(output_path, embed_subresources, before_cb=, after_cb=, canceled_cb=)
Begin ==
    /\ status = "idle"
    /\ \E embed \in BOOLEAN, cb \in CallbackSets :
          /\ stack' = <<Frame(<<>>, RootOut, embed, cb, StartPc(cb))>>
          /\ args' = <<[embed |-> embed, cb |-> cb]>>
    /\ status' = "running"
    /\ UNCHANGED <<tree, log, files, dirs, err, html, count, ret, rw, gui>>

\* a poll of canceled_cb whose result is not acted upon
CanceledCb_Ignored ==
    /\ Running
    /\ Top.pc \in {"start", "sub_poll", "kid_poll"}
    /\ \E r \in BOOLEAN :
          log' = Append(log, Event("canceled", Top.node, <<>>, Top.out, r))
    /\ stack' = SetTop([Top EXCEPT !.pc =
                   CASE Top.pc = "start"    -> "main_before"
                     [] Top.pc = "sub_poll" -> "sub_before"
                     [] Top.pc = "kid_poll" -> "kid_call"])
    /\ UNCHANGED <<tree, status, files, dirs, err, html, count, args, ret, rw, gui>>

\* "if canceled_cb and canceled_cb(): return" at any of its three places
CanceledCb ==
    /\ Running
    /\ Top.pc \in {"start", "sub_poll", "kid_poll"}
    /\ \E r \in BOOLEAN :
          /\ log' = Append(log, Event("canceled", Top.node, <<>>, Top.out, r))
          /\ IF r THEN ReturnFrom
             ELSE /\ stack' = SetTop([Top EXCEPT !.pc =
                         CASE Top.pc = "start"    -> "main_before"
                           [] Top.pc = "sub_poll" -> "sub_before"
                           [] Top.pc = "kid_poll" -> "kid_call"])
                  /\ UNCHANGED <<status, err>>
    /\ UNCHANGED <<tree, files, dirs, html, count, args, ret, rw, gui>>

\* up to BEFORE(self._main_resource, output_path): in linked mode
\* _make_local_paths() runs first
BeforeMain ==
    /\ Running
    /\ Top.pc = "main_before"
    /\ LET a  == At(tree, Top.node)
           mk == IF Top.embed THEN [err |-> "none", lp |-> a.lp]
                 ELSE MakeLocalPaths(a)
       IN  IF mk.err # "none"
           THEN /\ Fail(mk.err)
                /\ UNCHANGED <<tree, log>>
           ELSE /\ tree' = SetLp(tree, Top.node, mk.lp)
                /\ log' = IF Top.cb.before
                          THEN Append(log, Event("before", Top.node, a.main,
                                                 Top.out, FALSE))
                          ELSE log
                /\ stack' = SetTop([Top EXCEPT !.pc = "main_write"])
                /\ UNCHANGED <<status, err>>
    /\ UNCHANGED <<files, dirs, html, count, args, ret, rw, gui>>

\* self._extract_main_resource(output_path, subresource_dir_base or None)
WriteMain ==
    /\ Running
    /\ Top.pc = "main_write"
    /\ LET a == At(tree, Top.node)
           sdir == IF Top.embed THEN NoDir ELSE Dir(SubresourceDirBase(Top.out))
           w == ExtractMainResource(a, sdir)
       IN  IF w.err # "none"
           THEN /\ Fail(w.err)
                /\ files' = IF HasMain(a)
                            THEN MapPut(files, Top.out, [form |-> "partial"])
                            ELSE files
                /\ log' = log
           ELSE /\ files' = MapPut(files, Top.out, w.val)
                /\ log' = Append(log, Event("write", Top.node, a.main,
                                            Top.out, FALSE))
                /\ stack' = SetTop([Top EXCEPT !.pc = "main_after"])
                /\ UNCHANGED <<status, err>>
    /\ UNCHANGED <<tree, dirs, html, count, args, ret, rw, gui>>

\* the exceptions that the operating system and the codec may raise while
\* a resource is written: io.open or write fails (OSError), or the bytes of
\* a text resource do not decode (UnicodeDecodeError)
WriteErrors(res) ==
    {"OSError"} \cup (IF IsHtmlMimeType(res.mime) \/ res.mime = "text/css"
                      THEN {"UnicodeDecodeError"} ELSE {})

\* what is at path after a write that failed: nothing new if io.open
\* failed, else the file cut short
AfterFailedWrite(path, opened) ==
    IF opened THEN MapPut(files, path, [form |-> "partial"]) ELSE files

\* self._extract_main_resource(...) raises while it opens or writes the file
WriteMainFails ==
    /\ Running
    /\ Top.pc = "main_write"
    /\ HasMain(At(tree, Top.node))
    /\ \E e \in WriteErrors(At(tree, Top.node).main[1]), opened \in BOOLEAN :
          /\ e = "UnicodeDecodeError" => opened
          /\ Fail(e)
          /\ files' = AfterFailedWrite(Top.out, opened)
    /\ UNCHANGED <<tree, log, dirs, html, count, args, ret, rw, gui>>

\* AFTER(self._main_resource, output_path); in linked mode the directory
\* for subresources is made next
AfterMain ==
    /\ Running
    /\ Top.pc = "main_after"
    /\ LET a == At(tree, Top.node)
       IN  /\ log' = IF Top.cb.after
                     THEN Append(log, Event("after", Top.node, a.main,
                                            Top.out, FALSE))
                     ELSE log
           /\ IF Top.embed
              THEN /\ stack' = SetTop([Top EXCEPT !.pc = "ret"])
                   /\ dirs' = dirs
              ELSE /\ stack' = SetTop(AtSubLoop(Top, a, 1))
                   /\ dirs' = IF a.subs # <<>> \/ a.kids # <<>>
                              THEN dirs \cup {SubresourceDir(Top.out)}
                              ELSE dirs
    /\ UNCHANGED <<tree, status, files, err, html, count, args, ret, rw, gui>>

\* os.path.join(subresource_dir, self._local_paths[res.url])
SubresourcePath(a, out, res) == MkPath(SubresourceDir(out), a.lp[res.url])

\* a subresource loop that goes to the write without BEFORE
BeforeSub_NoHook ==
    /\ Running
    /\ Top.pc = "sub_before"
    /\ stack' = SetTop([Top EXCEPT !.pc = "sub_write"])
    /\ UNCHANGED <<tree, status, log, files, dirs, err, html, count, args, ret, rw, gui>>

\* BEFORE(res, subresource_path)
BeforeSub ==
    /\ Running
    /\ Top.pc = "sub_before"
    /\ LET a == At(tree, Top.node)
           res == a.subs[Top.i]
       IN  /\ log' = IF Top.cb.before
                     THEN Append(log, Event("before", Top.node, <<res>>,
                                  SubresourcePath(a, Top.out, res), FALSE))
                     ELSE log
           /\ stack' = SetTop([Top EXCEPT !.pc = "sub_write"])
    /\ UNCHANGED <<tree, status, files, dirs, err, html, count, args, ret, rw, gui>>

\* self._extract_subresource(res, subresource_path)
WriteSub ==
    /\ Running
    /\ Top.pc = "sub_write"
    /\ LET a == At(tree, Top.node)
           res == a.subs[Top.i]
           path == SubresourcePath(a, Top.out, res)
           w == ExtractSubresource(a, res)
       IN  IF w.err # "none"
           THEN /\ Fail(w.err)
                /\ files' = MapPut(files, path, [form |-> "partial"])
                /\ log' = log
           ELSE /\ files' = MapPut(files, path, w.val)
                /\ log' = Append(log, Event("write", Top.node, <<res>>,
                                            path, FALSE))
                /\ stack' = SetTop([Top EXCEPT !.pc = "sub_after"])
                /\ UNCHANGED <<status, err>>
    /\ UNCHANGED <<tree, dirs, html, count, args, ret, rw, gui>>

\* self._extract_subresource(res, subresource_path) raises while it opens
\* or writes the file
WriteSubFails ==
    /\ Running
    /\ Top.pc = "sub_write"
    /\ LET a == At(tree, Top.node)
           res == a.subs[Top.i]
       IN  \E e \in WriteErrors(res), opened \in BOOLEAN :
              /\ e = "UnicodeDecodeError" => opened
              /\ Fail(e)
              /\ files' = AfterFailedWrite(SubresourcePath(a, Top.out, res),
                                           opened)
    /\ UNCHANGED <<tree, log, dirs, html, count, args, ret, rw, gui>>

\* AFTER(res, subresource_path), and on to the next subresource
AfterSub ==
    /\ Running
    /\ Top.pc = "sub_after"
    /\ LET a == At(tree, Top.node)
           res == a.subs[Top.i]
       IN  /\ log' = IF Top.cb.after
                     THEN Append(log, Event("after", Top.node, <<res>>,
                                  SubresourcePath(a, Top.out, res), FALSE))
                     ELSE log
           /\ stack' = SetTop(AtSubLoop(Top, a, Top.i + 1))
    /\ UNCHANGED <<tree, status, files, dirs, err, html, count, args, ret, rw, gui>>

\* a nested extract() called with embed_subresources=True whatever the mode
KidFrame_OtherMode(f, kid_index, sf_local_path) ==
    Frame(Append(f.node, kid_index), sf_local_path, TRUE, f.cb,
          StartPc(f.cb))

\* the mode and callbacks handed to the nested extract()
KidFrame(f, kid_index, sf_local_path) ==
    Frame(Append(f.node, kid_index), sf_local_path, f.embed, f.cb,
          StartPc(f.cb))

\* subframe_archive.extract(sf_local_path, embed_subresources, ...)
CallSubframe ==
    /\ Running
    /\ Top.pc = "kid_call"
    /\ LET a == At(tree, Top.node)
           kid == a.kids[Top.i]
       IN  IF ~HasMain(kid)
           THEN Fail("AttributeError")
           ELSE LET sf_local_path ==
                        MkPath(SubresourceDir(Top.out), a.lp[kid.main[1].url])
                    back == [Top EXCEPT !.pc = KidLoopPc(a, Top.cb, Top.i + 1),
                                        !.i = Top.i + 1]
                IN  /\ stack' = Append(SetTop(back),
                                       KidFrame(Top, Top.i, sf_local_path))
                    /\ UNCHANGED <<status, err>>
    /\ UNCHANGED <<tree, log, files, dirs, html, count, args, ret, rw, gui>>

\* extract() runs off its end
Return ==
    /\ Running
    /\ Top.pc = "ret"
    /\ ReturnFrom
    /\ UNCHANGED <<tree, log, files, dirs, html, count, args, ret, rw, gui>>

\* archive.to_html() on an archive at rest
CallToHtml ==
    /\ status = "idle"
    /\ LET h == ToHtml(tree)
       IN  /\ html' = IF h.err = "none" THEN <<h.val>> ELSE <<>>
           /\ err' = h.err
    /\ status' = "queried"
    /\ UNCHANGED <<tree, stack, log, files, dirs, count, args, ret, rw, gui>>

\* archive.resource_count() on an archive at rest
CallResourceCount ==
    /\ status = "idle"
    /\ count' = ResourceCount(tree)
    /\ status' = "queried"
    /\ UNCHANGED <<tree, stack, log, files, dirs, err, html, args, ret, rw, gui>>

\* the places of the resources of a tree: <<node, 0>> for the main resource
\* of the archive at node, <<node, i>> for its i-th subresource
ResourcePlaces(a) ==
    {pl \in NodePaths(a, <<>>) \X (0..MaxSize) :
        \/ pl[2] = 0 /\ HasMain(At(a, pl[1]))
        \/ pl[2] \in 1..Len(At(a, pl[1]).subs)}

ResAt(a, pl) ==
    IF pl[2] = 0 THEN At(a, pl[1]).main[1] ELSE At(a, pl[1]).subs[pl[2]]

NoCall == [op |-> "none"]

\* no MainResourceProcessor has been made
NoRewriter == [pc |-> "none"]

\* no ExtractorUI has been made
NoWindow == [pc |-> "none"]

\* the result of a call on the resource at place pl: val is <<>> if it raised
Returned(op, pl, r) ==
    [op |-> op, place |-> pl,
     val |-> IF r.err = "none" THEN <<r.val>> ELSE <<>>]

\* res.to_data_uri() on a resource of an archive at rest
CallToDataUri ==
    /\ status = "idle"
    /\ \E pl \in ResourcePlaces(tree) :
          LET r == ToDataUri(At(tree, pl[1]), ResAt(tree, pl))
          IN  /\ ret' = Returned("to_data_uri", pl, r)
              /\ err' = r.err
    /\ status' = "queried"
    /\ UNCHANGED <<tree, stack, log, files, dirs, html, count, args, rw, gui>>

\* str(res) on a resource of an archive at rest
CallStr ==
    /\ status = "idle"
    /\ \E pl \in ResourcePlaces(tree) :
          LET r == Str(ResAt(tree, pl))
          IN  /\ ret' = Returned("str", pl, r)
              /\ err' = r.err
    /\ status' = "queried"
    /\ UNCHANGED <<tree, stack, log, files, dirs, html, count, args, rw, gui>>

\* bytes(res) on a resource of an archive at rest
CallBytes ==
    /\ status = "idle"
    /\ \E pl \in ResourcePlaces(tree) :
          LET r == Bytes(ResAt(tree, pl))
          IN  /\ ret' = Returned("bytes", pl, r)
              /\ err' = r.err
    /\ status' = "queried"
    /\ UNCHANGED <<tree, stack, log, files, dirs, html, count, args, rw, gui>>

\* archive.get_local_path(url) on an archive of the tree at rest
CallGetLocalPath ==
    /\ status = "idle"
    /\ \E n \in NodePaths(tree, <<>>), url \in LookupUrls :
          LET found == GetLocalPath(At(tree, n), url)
          IN  /\ ret' = [op |-> "get_local_path", place |-> <<n, url>>,
                         val |-> found]
              /\ err' = IF found = <<>> THEN "WebArchiveError" ELSE "none"
    /\ status' = "queried"
    /\ UNCHANGED <<tree, stack, log, files, dirs, html, count, args, rw, gui>>

\* process_style_sheet(res, archive.subresources, local_paths) on a
\* subresource of the root archive, without local paths (None) or with the
\* archive's table
CallProcessStyleSheet ==
    /\ status = "idle"
    /\ \E k \in 1..Len(tree.subs), local_paths \in {<<>>, <<tree.lp>>} :
          LET r == ProcessStyleSheet(tree, tree.subs[k], local_paths,
                                     RecursionLimit)
          IN  /\ ret' = [op |-> "process_style_sheet", place |-> <<<<>>, k>>,
                         local_paths |-> local_paths,
                         val |-> IF r.err = "none" THEN <<r.val>> ELSE <<>>]
              /\ err' = r.err
    /\ status' = "queried"
    /\ UNCHANGED <<tree, stack, log, files, dirs, html, count, args, rw, gui>>

(***************************************************************************)
(* MainResourceProcessor at work on the main document, one handler call    *)
(* of the parser per step.                                                 *)
(***************************************************************************)
\* MainResourceProcessor._VOID_ELEMENTS
VoidElements ==
    {"area", "base", "br", "col", "embed", "hr", "img", "input", "link",
     "meta", "param", "source", "track", "wbr", "command", "keygen",
     "menuitem"}

\* the text handle_decl looks for in a declaration: "//DTD XHTML "
XhtmlMark == <<"//", "DTD XHTML", " ">>

\* part in text
Contains(text, part) ==
    \E i \in 1..(Len(text) - Len(part) + 1) :
        SubSeq(text, i, i + Len(part) - 1) = part

\* how _build_starttag closes the tag
StartTagClose(is_xhtml, tag, is_empty) ==
    IF is_xhtml /\ (is_empty \/ tag \in VoidElements) THEN " />" ELSE ">"

\* the item the parser is at
Item == tree.main[1].data.refs[rw.pos]

Feeding == rw.pc = "feed" /\ rw.pos <= Len(tree.main[1].data.refs)

\* MainResourceProcessor.__init__(archive, output, root)
NewProcessor ==
    /\ rw = NoRewriter
    /\ HasMain(tree)
    /\ \E root \in {NoDir, Dir(SubresourceDirBase(RootOut))} :
          rw' = [pc |-> "feed", root |-> root, pos |-> 1, out |-> <<>>,
                 is_xhtml |-> tree.main[1].mime = "application/xhtml+xml"]
    /\ UNCHANGED <<tree, status, stack, log, files, dirs, err, html, count,
                   args, ret, gui>>

\* MainResourceProcessor.handle_decl
HandleDecl ==
    /\ Feeding
    /\ Item.tag = "!"
    /\ rw' = [rw EXCEPT !.pos = @ + 1,
                        !.out = Append(@, [kind |-> "decl", text |-> Item.text]),
                        !.is_xhtml = IF Contains(Item.text, XhtmlMark)
                                     THEN TRUE ELSE @]
    /\ UNCHANGED <<tree, status, stack, log, files, dirs, err, html, count,
                   args, ret, gui>>

\* self._output.write(self._build_starttag(tag, attrs, is_empty)); an
\* exception ends the feed
WriteStartTag(is_empty) ==
    LET r == BuildStartTag(tree, Item, rw.root, RecursionLimit)
    IN  /\ err' = r.err
        /\ rw' = IF r.err # "none" THEN [rw EXCEPT !.pc = "failed"]
                 ELSE [rw EXCEPT
                         !.pos = @ + 1,
                         !.out = Append(@,
                             IF r.val.kind = "style"
                             THEN [kind |-> "style", val |-> r.val]
                             ELSE [kind |-> "tag", tag |-> Item.tag,
                                   val |-> r.val,
                                   close |-> StartTagClose(rw.is_xhtml,
                                                 Item.tag, is_empty)])]

\* MainResourceProcessor.handle_starttag
HandleStartTag ==
    /\ Feeding
    /\ Item.tag # "!"
    /\ ~Item.empty
    /\ WriteStartTag(FALSE)
    /\ UNCHANGED <<tree, status, stack, log, files, dirs, html, count, args,
                   ret, gui>>

\* MainResourceProcessor.handle_startendtag
HandleStartEndTag ==
    /\ Feeding
    /\ Item.tag # "!"
    /\ Item.empty
    /\ WriteStartTag(TRUE)
    /\ UNCHANGED <<tree, status, stack, log, files, dirs, html, count, args,
                   ret, gui>>

\* mrp.feed(...) returns
EndOfFeed ==
    /\ rw.pc = "feed"
    /\ rw.pos > Len(tree.main[1].data.refs)
    /\ rw' = [rw EXCEPT !.pc = "done"]
    /\ UNCHANGED <<tree, status, stack, log, files, dirs, err, html, count,
                   args, ret, gui>>

Init ==
    /\ tree \in InputTrees
    /\ status = "idle"
    /\ stack = <<>>
    /\ log = <<>>
    /\ files = EmptyMap
    /\ dirs = {<< <<"out">> >>}
    /\ err = "none"
    /\ html = <<>>
    /\ count = -1
    /\ args = <<>>
    /\ ret = NoCall
    /\ rw = NoRewriter
    /\ gui = NoWindow

\* the same calls, on a page saved with a style sheet
InitStyle ==
    /\ tree \in StyleTrees
    /\ status = "idle"
    /\ stack = <<>>
    /\ log = <<>>
    /\ files = EmptyMap
    /\ dirs = {<< <<"out">> >>}
    /\ err = "none"
    /\ html = <<>>
    /\ count = -1
    /\ args = <<>>
    /\ ret = NoCall
    /\ rw = NoRewriter
    /\ gui = NoWindow

Next ==
    \/ Begin
    \/ CanceledCb
    \/ BeforeMain
    \/ WriteMain
    \/ AfterMain
    \/ BeforeSub
    \/ WriteSub
    \/ AfterSub
    \/ CallSubframe
    \/ Return
    \/ CallToHtml
    \/ CallResourceCount
    \/ CallToDataUri
    \/ CallStr
    \/ CallBytes
    \/ CallGetLocalPath

Spec == Init /\ [][Next]_vars

SpecStyle == InitStyle /\ [][Next]_vars

\* the same calls, on a page with frames
InitFrames ==
    /\ tree \in FrameTrees
    /\ status = "idle"
    /\ stack = <<>>
    /\ log = <<>>
    /\ files = EmptyMap
    /\ dirs = {<< <<"out">> >>}
    /\ err = "none"
    /\ html = <<>>
    /\ count = -1
    /\ args = <<>>
    /\ ret = NoCall
    /\ rw = NoRewriter
    /\ gui = NoWindow

SpecFrames == InitFrames /\ [][Next]_vars

\* extract() on a file system that may fail and data that may not decode
NextIo ==
    \/ Next
    \/ WriteMainFails
    \/ WriteSubFails

SpecIo == Init /\ [][NextIo]_vars

\* the rewriter fed a page item by item
InitPage ==
    /\ tree \in PageTrees
    /\ status = "idle"
    /\ stack = <<>>
    /\ log = <<>>
    /\ files = EmptyMap
    /\ dirs = {<< <<"out">> >>}
    /\ err = "none"
    /\ html = <<>>
    /\ count = -1
    /\ args = <<>>
    /\ ret = NoCall
    /\ rw = NoRewriter
    /\ gui = NoWindow

NextPage ==
    \/ NewProcessor
    \/ HandleDecl
    \/ HandleStartTag
    \/ HandleStartEndTag
    \/ EndOfFeed

SpecPage == InitPage /\ [][NextPage]_vars

\* process_style_sheet applied to a style sheet
InitCss ==
    /\ tree \in CssTrees
    /\ status = "idle"
    /\ stack = <<>>
    /\ log = <<>>
    /\ files = EmptyMap
    /\ dirs = {<< <<"out">> >>}
    /\ err = "none"
    /\ html = <<>>
    /\ count = -1
    /\ args = <<>>
    /\ ret = NoCall
    /\ rw = NoRewriter
    /\ gui = NoWindow

NextCss == CallProcessStyleSheet

SpecCss == InitCss /\ [][NextCss]_vars

(***************************************************************************)
(* The extractor window: ExtractorUI and its ExtractorThread.              *)
(*                                                                         *)
(* log also holds what the worker thread puts on the queue; before_cb and  *)
(* after_cb, the thread's hooks, are its "before" and "after" events.      *)
(* Each archive is extracted next to itself: tree, files and dirs show     *)
(* the archive at hand and its directory.                                  *)
(***************************************************************************)
GuiPlists ==
    { [main |-> PlistRes(U_index, "text/html", <<Attr("img", "src", R_pic)>>),
       subs |-> << PlistRes(U_pic, "image/png", <<>>) >>, kids |-> <<>>],
      [main |-> PlistRes(U_index, "text/html",
                         <<Attr("iframe", "src", R_frame)>>),
       subs |-> <<>>,
       kids |-> << [main |-> PlistRes(U_frame, "text/html", <<>>),
                    subs |-> <<>>, kids |-> <<>>] >>] }

GuiTrees == {PopulateFromPlistData(StampPlist(p, <<>>)) : p \in GuiPlists}

RECURSIVE ArchiveLists(_)
\* the lists of n archives
ArchiveLists(n) ==
    IF n = 0 THEN {<<>>}
    ELSE {Append(l, a) : l \in ArchiveLists(n - 1), a \in GuiTrees}

\* ExtractorThread passes all three callbacks, in linked mode
ThreadCallbacks == [before |-> TRUE, after |-> TRUE, cancel |-> TRUE]

\* an item the thread puts itself
Put(cmd, payload) == Event(cmd, <<>>, <<>>, RootOut, payload)

IsPut(e) ==
    e.ev \in {"archive start", "resource count", "before", "after",
              "archive done", "finished", "error"}

\* the queue: every item put so far, the first gui.taken of them taken
Queue == SelectSeq(log, IsPut)

\* None, or the exception
Terminal(e) == e.ev \in {"finished", "error"}

\* the window after extract_archives(): the thread is started, processing
\* is set and _extract_archives_cb is scheduled
InitGui ==
    /\ gui \in { [pc |-> "loop", archives |-> l, idx |-> 1,
                  canceler |-> FALSE, processing |-> TRUE, taken |-> 0,
                  closing |-> FALSE, close_due |-> FALSE,
                  destroyed |-> FALSE, error_occurred |-> FALSE,
                  open_after |-> oa, opened |-> FALSE] :
                 l \in UNION {ArchiveLists(n) : n \in 1..MaxArchives},
                 oa \in BOOLEAN }
    /\ tree = gui.archives[1]
    /\ status = "idle"
    /\ stack = <<>>
    /\ log = <<>>
    /\ files = EmptyMap
    /\ dirs = {<< <<"out">> >>}
    /\ err = "none"
    /\ html = <<>>
    /\ count = -1
    /\ args = <<>>
    /\ ret = NoCall
    /\ rw = NoRewriter

\* ExtractorThread.run, the head of the loop: leave it when canceled or
\* when no archive is left and put None, else open the next archive and
\* put its name and its resource count
WorkerLoop ==
    /\ gui.pc = "loop"
    /\ IF gui.canceler \/ gui.idx > Len(gui.archives)
       THEN /\ log' = Append(log, Put("finished", FALSE))
            /\ gui' = [gui EXCEPT !.pc = "end"]
            /\ UNCHANGED <<tree, status, stack, files, dirs, err, args>>
       ELSE /\ tree' = gui.archives[gui.idx]
            /\ status' = "idle"
            /\ stack' = <<>>
            /\ args' = <<>>
            /\ err' = "none"
            /\ files' = EmptyMap
            /\ dirs' = {<< <<"out">> >>}
            /\ log' = log \o << Put("archive start", FALSE),
                               Put("resource count",
                                   ResourceCount(gui.archives[gui.idx])) >>
            /\ gui' = [gui EXCEPT !.pc = "extract"]
    /\ UNCHANGED <<html, count, ret, rw>>

\* archive.extract(output_path, before_cb, after_cb, canceled_cb)
WorkerExtract ==
    /\ gui.pc = "extract"
    /\ Begin
    /\ args' = <<[embed |-> FALSE, cb |-> ThreadCallbacks]>>

\* canceled_cb is canceler.is_set
WorkerCanceledCb ==
    /\ gui.pc = "extract"
    /\ CanceledCb
    /\ log'[Len(log')].val = gui.canceler

\* extract has returned: put "archive done" and go on with the loop
WorkerArchiveDone ==
    /\ gui.pc = "extract"
    /\ status = "done"
    /\ log' = Append(log, Put("archive done", FALSE))
    /\ gui' = [gui EXCEPT !.pc = "loop", !.idx = @ + 1]
    /\ UNCHANGED <<tree, status, stack, files, dirs, err, html, count, args,
                   ret, rw>>

\* extract has raised: put the exception, the thread ends
WorkerError ==
    /\ gui.pc = "extract"
    /\ status = "failed"
    /\ log' = Append(log, Put("error", FALSE))
    /\ gui' = [gui EXCEPT !.pc = "end"]
    /\ UNCHANGED <<tree, status, stack, files, dirs, err, html, count, args,
                   ret, rw>>

\* the steps of the thread
Worker ==
    \/ WorkerLoop
    \/ WorkerExtract
    \/ WorkerCanceledCb
    \/ BeforeMain
    \/ WriteMain
    \/ WriteMainFails
    \/ AfterMain
    \/ BeforeSub
    \/ WriteSub
    \/ AfterSub
    \/ CallSubframe
    \/ Return
    \/ WorkerArchiveDone
    \/ WorkerError

\* ExtractorUI._extract_archives_cb with an item on the queue: a terminal
\* item ends processing, opens the page if asked to and no error was
\* shown, and schedules close_window
Poll ==
    /\ gui.processing
    /\ ~gui.destroyed
    /\ gui.taken < Len(Queue)
    /\ LET item == Queue[gui.taken + 1]
       IN  gui' = [gui EXCEPT !.taken = @ + 1,
                              !.processing = ~Terminal(item),
                              !.error_occurred = (item.ev = "error"),
                              !.opened = (item.ev = "finished"
                                             /\ gui.open_after),
                              !.close_due = Terminal(item)]
    /\ UNCHANGED <<tree, status, stack, log, files, dirs, err, html, count,
                   args, ret, rw>>

\* ExtractorUI.close_window, called for the user: cancel and wait while
\* processing, else destroy the window
RequestClose ==
    /\ ~gui.destroyed
    /\ ~gui.closing
    /\ gui' = IF gui.processing
              THEN [gui EXCEPT !.canceler = TRUE, !.closing = TRUE]
              ELSE [gui EXCEPT !.destroyed = TRUE]
    /\ UNCHANGED <<tree, status, stack, log, files, dirs, err, html, count,
                   args, ret, rw>>

\* wait_variable(processing) returns in close_window
WaitReturns ==
    /\ gui.closing
    /\ ~gui.processing
    /\ ~gui.destroyed
    /\ gui' = [gui EXCEPT !.destroyed = TRUE]
    /\ UNCHANGED <<tree, status, stack, log, files, dirs, err, html, count,
                   args, ret, rw>>

\* the close_window call that _extract_archives_cb has scheduled
ScheduledClose ==
    /\ gui.close_due
    /\ ~gui.closing
    /\ ~gui.destroyed
    /\ gui' = [gui EXCEPT !.destroyed = TRUE]
    /\ UNCHANGED <<tree, status, stack, log, files, dirs, err, html, count,
                   args, ret, rw>>

NextGui ==
    \/ Worker
    \/ Poll
    \/ RequestClose
    \/ WaitReturns
    \/ ScheduledClose

SpecGui == InitGui /\ [][NextGui]_vars

\* the thread runs, the event loop runs its scheduled callbacks; the user
\* need not do anything
SpecGuiFair ==
    /\ SpecGui
    /\ WF_vars(Worker)
    /\ WF_vars(Poll)
    /\ WF_vars(WaitReturns)
    /\ WF_vars(ScheduledClose)

(***************************************************************************)
(* Properties.                                                             *)
(***************************************************************************)
\* every archive of the tree has its main resource
RECURSIVE WellFormed(_)
WellFormed(a) ==
    /\ HasMain(a)
    /\ \A i \in 1..Len(a.kids) : WellFormed(a.kids[i])

\* the nodes of the tree, as paths from the root
Nodes == NodePaths(tree, <<>>)

\* the extract() call has returned and canceled_cb never reported true
Completed ==
    /\ status = "done"
    /\ \A k \in 1..Len(log) : ~(log[k].ev = "canceled" /\ log[k].val)

Embedded == args # <<>> /\ args[1].embed

Linked == args # <<>> /\ ~args[1].embed

\* the table of node a gives different file names to any two of the
\* resources a extracts: its main resource, its subresources and the main
\* resources of its subframe archives
DistinctLocalPaths(a) ==
    LET rs == LocalPathResources(a)
    IN  \A i, j \in 1..Len(rs) :
            i # j => a.lp[rs[i][1].url] # a.lp[rs[j][1].url]

\* C1: in a tree built from plist data, any two distinct resources of one
\* archive (main resource, subresources, subframe main resources) get
\* different local paths, resources that carry the same URL included.
C1_PathUniqueness ==
    WellFormed(tree) =>
        \A n \in Nodes : DistinctLocalPaths(At(tree, n))

\* the names directly inside directory d: files and directories
Entries(d) ==
    {<<"file", p.name>> : p \in {q \in DOMAIN files : q.dir = d}}
    \cup {<<"dir", e[Len(e)]>> :
             e \in {x \in dirs : Len(x) = Len(d) + 1
                                 /\ SubSeq(x, 1, Len(d)) = d}}

\* C2: after a completed linked extract of a tree, every resource but the
\* root's main resource was written directly inside <stem>_files, that
\* directory has no subdirectory, and it holds resource_count() - 1 entries.
C2_FlatSubresourceDir ==
    (Completed /\ Linked /\ WellFormed(tree)) =>
        /\ \A k \in 1..Len(log) :
               (log[k].ev = "write" /\ log[k].path # RootOut)
                   => log[k].path.dir = SubresourceDir(RootOut)
        /\ \A e \in Entries(SubresourceDir(RootOut)) : e[1] = "file"
        /\ (ResourceCount(tree) > 1 =>
               Cardinality(Entries(SubresourceDir(RootOut)))
                   = ResourceCount(tree) - 1)

\* the hooks and the write of log entries j and k are about one resource
\* and one path
SameTarget(j, k) ==
    /\ log[j].node = log[k].node
    /\ log[j].res = log[k].res
    /\ log[j].path = log[k].path

HooksGiven == args # <<>> /\ args[1].cb.before /\ args[1].cb.after

\* C3: with both hooks given, every resource that is processed goes through
\* before_cb, then its write, then after_cb, each about the same resource
\* and path, with nothing between them, and after_cb runs only once the
\* file is there.
C3_HookOrdering ==
    HooksGiven =>
        \A k \in 1..Len(log) :
            /\ log[k].ev = "before" /\ k < Len(log)
                   => log[k + 1].ev = "write" /\ SameTarget(k, k + 1)
            /\ log[k].ev = "write"
                   => /\ k > 1
                      /\ log[k - 1].ev = "before"
                      /\ SameTarget(k - 1, k)
            /\ log[k].ev = "write" /\ k < Len(log)
                   => log[k + 1].ev = "after" /\ SameTarget(k, k + 1)
            /\ log[k].ev = "after"
                   => /\ k > 1
                      /\ log[k - 1].ev = "write"
                      /\ SameTarget(k - 1, k)
                      /\ log[k].path \in DOMAIN files
                      /\ files[log[k].path].form # "partial"

\* a finished linked extraction with hooks that went through the root's
\* resources and those of a subframe archive
C3_Witness ==
    /\ HooksGiven
    /\ Linked
    /\ status = "done"
    /\ \E k \in 1..Len(log) : log[k].ev = "after" /\ log[k].node # <<>>
    /\ \E k \in 1..Len(log) :
           log[k].ev = "after" /\ log[k].node = <<>> /\ log[k].path # RootOut

IsPrefix(p, q) == Len(p) <= Len(q) /\ SubSeq(q, 1, Len(p)) = p

CancelGiven == args # <<>> /\ args[1].cb.cancel

CanceledAt(k) == log[k].ev = "canceled" /\ log[k].val

\* every before_cb directly follows a poll of canceled_cb, by the same
\* extract() call, that returned false
PolledBeforeEach ==
    \A k \in 1..Len(log) :
        log[k].ev = "before"
            => /\ k > 1
               /\ log[k - 1].ev = "canceled"
               /\ ~log[k - 1].val
               /\ log[k - 1].node = log[k].node

\* C4 as stated: canceled_cb is polled before each resource, and once it
\* has returned true, extract returns normally and no hook runs and no
\* resource is written any more, anywhere in the tree.
C4_CancelStopsEverything ==
    (CancelGiven /\ WellFormed(tree)) =>
        /\ PolledBeforeEach
        /\ \A i, j \in 1..Len(log) :
               (i < j /\ CanceledAt(i)) => log[j].ev = "canceled"
        /\ (\E i \in 1..Len(log) : CanceledAt(i)) => status # "failed"

\* C4, amended: canceled_cb is polled before each resource; when it returns
\* true, the extract() call that polled it returns normally at once and
\* neither it nor a call nested in it does anything more; an enclosing
\* call polls canceled_cb again before going on, so nothing more happens in
\* the tree for as long as canceled_cb keeps returning true.
C4_CancelStopsTheCall ==
    CancelGiven =>
        /\ PolledBeforeEach
        /\ \A i, j \in 1..Len(log) :
               (i < j /\ CanceledAt(i)) => ~IsPrefix(log[i].node, log[j].node)
        /\ \A i \in 1..Len(log) :
               (CanceledAt(i) /\ i < Len(log))
                   => /\ log[i + 1].ev = "canceled"
                      /\ IsPrefix(log[i + 1].node, log[i].node)
        /\ \A i \in 1..Len(log) :
               (/\ CanceledAt(i)
                /\ \A j \in (i + 1)..Len(log) :
                       log[j].ev = "canceled" => log[j].val)
                   => \A j \in (i + 1)..Len(log) : log[j].ev = "canceled"
        /\ (log # <<>> /\ CanceledAt(Len(log)))
               => /\ status # "failed"
                  /\ Len(stack) <= Len(log[Len(log)].node)
        /\ (log # <<>> /\ CanceledAt(Len(log)) /\ log[Len(log)].node = <<>>)
               => status = "done"

\* canceled_cb returned true inside a subframe archive, false afterwards,
\* and a later resource was written
C4_Witness ==
    /\ CancelGiven
    /\ \E i, j \in 1..Len(log) :
           /\ i < j
           /\ CanceledAt(i)
           /\ log[i].node # <<>>
           /\ log[j].ev = "write"

\* the content ids of the resources of a tree: main resource, then
\* subresources in their order, then each subframe archive in turn
RECURSIVE Preorder(_)
Preorder(a) ==
    LET K[i \in 0..Len(a.kids)] ==
            IF i = 0 THEN <<>> ELSE K[i - 1] \o Preorder(a.kids[i])
    IN  (IF HasMain(a) THEN <<a.main[1].data.blob>> ELSE <<>>)
        \o [i \in 1..Len(a.subs) |-> a.subs[i].data.blob]
        \o K[Len(a.kids)]

IsWrite(e) == e.ev = "write"

\* the content ids of the resources written so far, in the order written
Written ==
    LET w == SelectSeq(log, IsWrite)
    IN  [k \in 1..Len(w) |-> w[k].res[1].data.blob]

\* C5: a linked extract writes the main resource, then the subresources in
\* their order, then each subframe archive completely before the next one
\* (depth first), and every nested extract() runs with the mode and the
\* callbacks of the outermost call.
C5_PhaseOrder ==
    args # <<>> =>
        /\ \A d \in 1..Len(stack) :
               /\ stack[d].embed = args[1].embed
               /\ stack[d].cb = args[1].cb
        /\ Linked =>
               LET p == Preorder(tree)
                   w == Written
               IN  /\ \A i, j \in 1..Len(w) : i < j =>
                          \E x, y \in 1..Len(p) :
                              x < y /\ p[x] = w[i] /\ p[y] = w[j]
                   /\ (\A k \in 1..Len(log) : ~CanceledAt(k))
                          => (Len(w) <= Len(p) /\ w = SubSeq(p, 1, Len(w)))
                   /\ Completed => w = p
        /\ (Embedded /\ Completed) => Written = <<tree.main[1].data.blob>>

\* a completed linked extract of a tree whose first subframe archive has a
\* subresource and is followed by a second subframe archive
C5_Witness ==
    /\ Completed
    /\ Linked
    /\ Len(tree.kids) >= 2
    /\ tree.kids[1].subs # <<>>

\* an archive as WebArchive() makes it: no resource of any kind
EmptyArchive(a) == ~HasMain(a) /\ a.subs = <<>> /\ a.kids = <<>>

\* C6 as stated: for an archive without any resource, resource_count() is
\* 0 and every call of extract, whatever its mode, hooks and cancellation
\* predicate, and every call of to_html raises WebArchiveError.
C6_EmptyArchiveAlwaysRaises ==
    EmptyArchive(tree) =>
        /\ count # -1 => count = 0
        /\ status # "done"
        /\ status = "failed" => err = "WebArchiveError"
        /\ (status = "queried" /\ count = -1 /\ ret = NoCall)
               => (err = "WebArchiveError" /\ html = <<>>)

\* C6, amended: for an archive without any resource, resource_count() is 0,
\* to_html raises WebArchiveError, and extract raises WebArchiveError
\* unless canceled_cb returns true at the first poll, in which case it
\* returns normally and has written nothing.
C6_EmptyArchiveRaises ==
    EmptyArchive(tree) =>
        /\ count # -1 => count = 0
        /\ status = "done"
               => (CancelGiven /\ Len(log) = 1 /\ CanceledAt(1))
        /\ status = "failed" => err = "WebArchiveError"
        /\ (status = "queried" /\ count = -1 /\ ret = NoCall)
               => (err = "WebArchiveError" /\ html = <<>>)
        /\ files = EmptyMap

\* a linked extract of the empty archive raised after canceled_cb
\* returned false
C6_Witness ==
    /\ EmptyArchive(tree)
    /\ Linked
    /\ CancelGiven
    /\ status = "failed"
    /\ err = "WebArchiveError"
    /\ log # <<>>
    /\ log[1].ev = "canceled"
    /\ ~log[1].val

\* C7: when extract fails on a malformed tree (no main resource at the
\* root or in a subframe archive at any depth), the error that leaves
\* extract is a WebArchiveError.
C7_OnlyWebArchiveError ==
    (~WellFormed(tree) /\ status = "failed") => err = "WebArchiveError"

\* the equation of the count at node a
CountEquation(a) ==
    LET S[i \in 0..Len(a.kids)] ==
            IF i = 0 THEN 0 ELSE S[i - 1] + ResourceCount(a.kids[i])
    IN  ResourceCount(a)
            = (IF HasMain(a) THEN 1 ELSE 0) + Len(a.subs) + S[Len(a.kids)]

\* C8: resource_count() of a tree is 1 if it has a main resource, plus the
\* number of its subresources, plus the counts of its subframe archives,
\* at every depth: the number of resources in the whole tree.
C8_ResourceCount ==
    count # -1 =>
        /\ count = Cardinality(ResourcePlaces(tree))
        /\ \A n \in Nodes : CountEquation(At(tree, n))

\* the count of a tree three archives deep was taken
C8_Witness ==
    /\ count >= 3
    /\ tree.kids # <<>>
    /\ tree.kids[1].kids # <<>>

\* str(content, encoding): the text that written content decodes to
Decode(content, enc) ==
    IF content.form = "text"
    THEN IF content.enc = enc THEN <<content.text>> ELSE <<>>
    ELSE IF content.form = "bytes"
    THEN <<[blob |-> content.data.blob,
            vals |-> [i \in 1..Len(content.data.refs) |->
                          UrlVal(content.data.refs[i].val)]]>>
    ELSE <<>>

ContentId(c) ==
    IF c.form = "text" THEN <<c.text.blob>>
    ELSE IF c.form = "bytes" THEN <<c.data.blob>>
    ELSE <<>>

\* C10: every reference of the main document designates the same resource
\* after single-file rewriting (the data URI's payload, or the URL) as
\* after linked rewriting (the file at the local path, or the URL), and it
\* is internal in one mode exactly when it is internal in the other.
C10_ModeEquivalence ==
    (/\ Completed
     /\ Linked
     /\ WellFormed(tree)
     /\ IsHtmlMimeType(tree.main[1].mime)) =>
        LET refs == tree.main[1].data.refs
            lv   == files[RootOut].text.vals
            E(i) == ProcessAttrValue(tree, refs[i], NoDir, RecursionLimit).val
            P(i) == MkPath(Append(RootOut.dir, lv[i].dir), lv[i].name)
        IN  \A i \in 1..Len(refs) :
              /\ (E(i).kind = "data") <=> (lv[i].kind = "path")
              /\ (E(i).kind = "data" /\ lv[i].kind = "path")
                     => /\ P(i) \in DOMAIN files
                        /\ ContentId(files[P(i)])
                               = ContentId(E(i).payload.b64)
              /\ (E(i).kind = "url" /\ lv[i].kind = "url")
                     => AbsoluteUrl(tree, E(i).url) = lv[i].url

(***************************************************************************)
(* References that are not stored, and references that are.                *)
(***************************************************************************)
\* the attributes rewritten as references to resources
IsResourceRef(at) ==
    at.attr = "src" \/ (at.tag = "link" /\ at.attr = "href")

\* the archive holds something under this absolute URL
Stored(a, url) ==
    \/ a.main[1].url = url
    \/ \E i \in 1..Len(a.subs) : a.subs[i].url = url
    \/ \E i \in 1..Len(a.kids) :
           HasMain(a.kids[i]) /\ a.kids[i].main[1].url = url

\* the main document of the root archive was rewritten and written out
MainWritten ==
    /\ HasMain(tree)
    /\ IsHtmlMimeType(tree.main[1].mime)
    /\ RootOut \in DOMAIN files
    /\ files[RootOut].form = "text"

\* C11: in the rewritten main document, in linked and in embedded mode,
\* every src, link href and frame src reference whose absolute URL is not
\* stored in the archive has become its absolute URL, resolved against
\* the main resource's URL.
C11_AbsoluteFallback ==
    MainWritten =>
        \A i \in 1..Len(tree.main[1].data.refs) :
            LET at == tree.main[1].data.refs[i]
                abs_url == AbsoluteUrl(tree, at.val)
            IN  (IsResourceRef(at) /\ ~Stored(tree, abs_url))
                    => files[RootOut].text.vals[i] = UrlVal(abs_url)

\* a src attribute outside frames, or the href of a link that is no
\* style sheet
IsSrcRef(at) ==
    /\ IsResourceRef(at)
    /\ at.tag \notin {"frame", "iframe"}
    /\ ~(at.tag = "link" /\ Lower(at.rel) = "stylesheet")

\* the src rule for the references refs of a document of the root archive
\* rewritten to vals with the subresource directory sdir
SrcRule(refs, vals, sdir) ==
    \A i \in 1..Len(refs) :
        LET abs_url == AbsoluteUrl(tree, refs[i].val)
            found   == GetSubresource(tree, abs_url)
        IN  (IsSrcRef(refs[i]) /\ found # <<>>) =>
                vals[i] = IF sdir.none
                          THEN ToDataUri(tree, found[1]).val
                          ELSE PathVal(sdir.name,
                                       GetLocalPath(tree, abs_url)[1])

\* the file of the k-th subresource of the root archive holds rewritten text
SubWritten(k) ==
    /\ Linked
    /\ k \in 1..Len(tree.subs)
    /\ SubresourcePath(tree, RootOut, tree.subs[k]) \in DOMAIN files
    /\ files[SubresourcePath(tree, RootOut, tree.subs[k])].form = "text"

\* C12: a src attribute (not on a frame) or a link href that is no style
\* sheet, whose absolute URL is that of an archived subresource, is
\* rewritten to '<subresource_dir>/<local path>' in linked mode, to the bare
\* local path where the directory name is the empty string (the documents
\* among the subresources), and to the resource's own data URI in embedded
\* mode, whether the reference is spelled absolute or relative.
C12_SrcRule ==
    /\ MainWritten =>
          SrcRule(tree.main[1].data.refs, files[RootOut].text.vals,
                  IF Embedded THEN NoDir
                  ELSE Dir(SubresourceDirBase(RootOut)))
    /\ \A k \in 1..Len(tree.subs) :
          (SubWritten(k) /\ IsHtmlMimeType(tree.subs[k].mime)) =>
              SrcRule(tree.subs[k].data.refs,
                      files[SubresourcePath(tree, RootOut, tree.subs[k])].text.vals,
                      Dir(<<>>))

\* C13: in the rewritten main document, in linked and in embedded mode,
\* every a href and form action is the absolute URL resolved against the
\* main resource's URL, never a local path or a data URI, also when that
\* URL is the URL of an archived subresource.
C13_LinksStayAbsolute ==
    MainWritten =>
        \A i \in 1..Len(tree.main[1].data.refs) :
            LET at == tree.main[1].data.refs[i]
            IN  ((at.tag = "a" /\ at.attr = "href")
                    \/ (at.tag = "form" /\ at.attr = "action"))
                => files[RootOut].text.vals[i]
                       = UrlVal(AbsoluteUrl(tree, at.val))

\* the picture is archived, and the document that links to it with a href
\* (spelled relative) and form action (spelled absolute) was written in
\* embedded mode, next to an img src that became a data URI
C13_Witness ==
    /\ MainWritten
    /\ Embedded
    /\ GetSubresource(tree, U_pic) # <<>>
    /\ \E i \in 1..Len(tree.main[1].data.refs) :
          /\ tree.main[1].data.refs[i] = Attr("form", "action", U_pic)
          /\ files[RootOut].text.vals[i] = UrlVal(U_pic)
    /\ \E i \in 1..Len(tree.main[1].data.refs) :
          /\ tree.main[1].data.refs[i] = Attr("a", "href", R_pic)
          /\ files[RootOut].text.vals[i] = UrlVal(U_pic)
    /\ \E i \in 1..Len(tree.main[1].data.refs) :
          /\ tree.main[1].data.refs[i] = Attr("img", "src", R_pic)
          /\ files[RootOut].text.vals[i].kind = "data"

(***************************************************************************)
(* Style sheets.                                                           *)
(***************************************************************************)
\* the file of the k-th subresource of the root archive, a style sheet
CssFile(k) == files[SubresourcePath(tree, RootOut, tree.subs[k])]

\* what C14 expects in place of the url() value ref of the style sheet res:
\* the bare local file name of the archived resource it resolves to, and
\* the URL itself if it is absolute and not archived
LinkedCssValue(res, ref) ==
    LET abs_url == UrlJoin(res.url, ref)
    IN  IF abs_url \in DOMAIN tree.lp THEN <<tree.lp[abs_url]>>
        ELSE IF ref.scheme # "" THEN <<UrlStr(ref)>>
        ELSE <<>>

\* C14: in a style sheet extracted in linked mode every url() value is
\* resolved against the style sheet's own URL; one that resolves to an
\* archived resource is replaced by that resource's bare local file name,
\* and an absolute external URL is left unchanged.
C14_LinkedStyleSheet ==
    \A k \in 1..Len(tree.subs) :
        (SubWritten(k) /\ tree.subs[k].mime = "text/css") =>
            \A i \in 1..Len(tree.subs[k].data.refs) :
                LET want == LinkedCssValue(tree.subs[k],
                                           tree.subs[k].data.refs[i].val)
                IN  want # <<>> => CssFile(k).text.vals[i] = want[1]

\* the spelling of a data URI
DataUriStr(d) == <<"data:", d.mime, ";base64,", d.payload>>

\* to_data_uri() was called on the style sheet ret.place and returned
StyleSheetEmbedded ==
    /\ ret.op = "to_data_uri"
    /\ ret.val # <<>>
    /\ ResAt(tree, ret.place).mime = "text/css"
    /\ ResAt(tree, ret.place).url # At(tree, ret.place[1]).main[1].url

\* C15: in a style sheet processed in embedded mode (as to_data_uri does)
\* every url() value that resolves to another subresource of the archive
\* is replaced with that subresource's data URI, and every other value
\* with its absolute URL.
C15_EmbeddedStyleSheet ==
    StyleSheetEmbedded =>
        LET a    == At(tree, ret.place[1])
            res  == ResAt(tree, ret.place)
            vals == ret.val[1].payload.b64.text.vals
        IN  \A i \in 1..Len(res.data.refs) :
                LET abs_url == UrlJoin(res.url, res.data.refs[i].val)
                    found   == GetSubresource(a, abs_url)
                IN  IF found # <<>> /\ found[1] # res
                    THEN /\ Len(vals[i]) = 4
                         /\ vals[i] = DataUriStr(ToDataUri(a, found[1]).val)
                    ELSE vals[i] = UrlStr(abs_url)

(***************************************************************************)
(* Data URIs, string and byte views.                                       *)
(***************************************************************************)
\* C16: to_data_uri of a resource returns a data URI of the resource's MIME
\* type whose payload is the resource's raw bytes unless the resource is
\* the main resource of its archive or a style sheet, and the rewritten
\* text of the resource for those; a subresource never gets the whole
\* document as its payload.
C16_DataUriPayload ==
    (ret.op = "to_data_uri" /\ ret.val # <<>>) =>
        LET a   == At(tree, ret.place[1])
            res == ResAt(tree, ret.place)
            d   == ret.val[1]
        IN  /\ d.kind = "data"
            /\ d.mime = res.mime
            /\ IF ret.place[2] = 0
               THEN d.payload.b64 = Encode(ToHtml(a).val, res.enc)
               ELSE IF res.mime = "text/css"
               THEN /\ d.payload.b64.form = "text"
                    /\ d.payload.b64.text.blob = res.data.blob
               ELSE d.payload.b64 = RawBytes(res)

\* C17: a resource with a textual MIME type has a text encoding (utf-8
\* when the archive gives none or an empty one) and its string view
\* succeeds; for a resource with any other MIME type the string view
\* fails; the byte view always succeeds and is the archived data.
C17_EncodingAndViews ==
    /\ \A pl \in ResourcePlaces(tree) :
          IsTextMimeType(ResAt(tree, pl).mime) =>
              /\ ResAt(tree, pl).enc # <<>>
              /\ ResAt(tree, pl).enc[1] # ""
    /\ ret.op = "str" =>
          (ret.val # <<>> <=> IsTextMimeType(ResAt(tree, ret.place).mime))
    /\ ret.op = "bytes" =>
          ret.val = <<ResAt(tree, ret.place).data>>

\* C18: on every finite archive tree to_html and to_data_uri terminate
\* instead of recursing without end, also when a style sheet's url() value
\* resolves to the style sheet itself or a subresource has the URL of the
\* main resource.
C18_CycleSafe ==
    (status = "queried"
        /\ (ret.op = "to_data_uri" \/ (ret = NoCall /\ count = -1)))
        => err # "RecursionError"

(***************************************************************************)
(* The local_paths tables after construction.                              *)
(***************************************************************************)
\* the URLs of the resources an archive extracts itself: its main resource,
\* its subresources, and the main resources of its subframe archives
OwnUrls(a) ==
    {a.main[i].url : i \in 1..Len(a.main)}
    \cup {a.subs[i].url : i \in 1..Len(a.subs)}
    \cup UNION { {a.kids[i].main[j].url : j \in 1..Len(a.kids[i].main)} :
                 i \in 1..Len(a.kids) }

RECURSIVE AllUrls(_)
\* the URLs of all resources of a tree
AllUrls(a) ==
    {a.main[i].url : i \in 1..Len(a.main)}
    \cup {a.subs[i].url : i \in 1..Len(a.subs)}
    \cup UNION { AllUrls(a.kids[i]) : i \in 1..Len(a.kids) }

\* the URLs of the subresources of the children of a, and of all resources
\* of deeper descendants
BelowUrls(a) ==
    UNION { {a.kids[i].subs[j].url : j \in 1..Len(a.kids[i].subs)}
            \cup UNION { AllUrls(a.kids[i].kids[j]) :
                         j \in 1..Len(a.kids[i].kids) } :
            i \in 1..Len(a.kids) }

\* every subresource written so far went to the name that the table of
\* its own archive gives it
WritesUseOwnTable ==
    \A k \in 1..Len(log) :
        (log[k].ev = "write" /\ log[k].res # At(tree, log[k].node).main)
            => log[k].path.name = At(tree, log[k].node).lp[log[k].res[1].url]

\* C19 as stated: in a tree read from a property list, the local_paths of
\* every archive has an entry for exactly its own main resource, each of
\* its subresources and the main resource of each direct child, and for no
\* URL of a child's subresources or of deeper descendants; a child is
\* extracted with its own table.
C19_LocalPathsScopeStrict ==
    WellFormed(tree) =>
        /\ \A n \in Nodes :
              /\ DOMAIN At(tree, n).lp = OwnUrls(At(tree, n))
              /\ DOMAIN At(tree, n).lp \cap BelowUrls(At(tree, n)) = {}
        /\ WritesUseOwnTable

\* C19, amended: the local_paths of every archive has an entry for exactly
\* the URLs of its own main resource, of its subresources and of the main
\* resources of its direct children; a URL of a child's subresource or of
\* a deeper descendant has an entry only if it is also one of those; a
\* child is extracted with its own table.
C19_LocalPathsScope ==
    WellFormed(tree) =>
        /\ \A n \in Nodes :
              /\ DOMAIN At(tree, n).lp = OwnUrls(At(tree, n))
              /\ DOMAIN At(tree, n).lp \cap BelowUrls(At(tree, n))
                     \subseteq OwnUrls(At(tree, n))
        /\ WritesUseOwnTable

\* a child with a subresource that the root does not have was extracted
\* after the root, and its subresource was written
C19_Witness ==
    /\ WellFormed(tree)
    /\ Completed
    /\ Linked
    /\ tree.kids # <<>>
    /\ tree.kids[1].subs # <<>>
    /\ tree.kids[1].subs[1].url \notin DOMAIN tree.lp
    /\ \E k \in 1..Len(log) :
          /\ log[k].ev = "write"
          /\ log[k].node = <<1>>
          /\ log[k].res = <<tree.kids[1].subs[1]>>

(***************************************************************************)
(* The tree after construction.                                            *)
(***************************************************************************)
\* C20: no step of extract (in either mode, completing, canceled or
\* failing), to_html, to_data_uri, resource_count, str, bytes or
\* get_local_path changes a tree read from a property list or a newly
\* constructed empty archive: the main
\* resources, subresource lists, child lists and local_paths tables of all
\* its archives and the data, MIME type, URL and encoding of all its
\* resources stay as they are; the _make_local_paths call inside extract
\* assigns nothing.
C20_ReadOnly ==
    [][(WellFormed(tree) \/ EmptyArchive(tree)) => tree' = tree]_vars

\* a linked extract of a tree with a subframe archive ran _make_local_paths
\* in both archives and completed
C20_Witness ==
    /\ WellFormed(tree)
    /\ Completed
    /\ Linked
    /\ tree.subs # <<>>
    /\ tree.kids # <<>>
    /\ \E k \in 1..Len(log) : log[k].ev = "write" /\ log[k].node = <<1>>
(***************************************************************************)
(* The rewriter: XHTML detection and srcset.                               *)
(***************************************************************************)
\* the rewriter has been made for the main document
Rewriting == rw.pc \in {"feed", "done", "failed"}

\* the document being rewritten
Doc == tree.main[1].data.refs

\* the XHTML flag C21 describes when item i is handled: set from the MIME
\* type, and by every earlier doctype that contains 'DTD XHTML'
XhtmlDetected(i) ==
    \/ tree.main[1].mime = "application/xhtml+xml"
    \/ \E j \in 1..(i - 1) :
           Doc[j].tag = "!" /\ Contains(Doc[j].text, <<"DTD XHTML">>)

\* C21: the rewriter's XHTML flag is set initially iff the MIME type is
\* application/xhtml+xml, becomes true when a doctype containing 'DTD XHTML'
\* has been seen and never returns to false; a void-element or self-closing
\* start tag emitted while the flag is true ends with ' />', and a start
\* tag emitted while it is false ends with '>'.
C21_XhtmlOneWay ==
    Rewriting =>
        /\ rw.is_xhtml = XhtmlDetected(rw.pos)
        /\ \A i \in 1..Len(rw.out) :
               rw.out[i].kind = "tag" =>
                   /\ (XhtmlDetected(i)
                          /\ (Doc[i].empty \/ Doc[i].tag \in VoidElements))
                         => rw.out[i].close = " />"
                   /\ ~XhtmlDetected(i) => rw.out[i].close = ">"

\* the src rule for one URL: the local path under the subresource directory
\* in linked mode, the resource's data URI in embedded mode, and the
\* absolute URL if the archive has no such subresource
SrcRuleValue(a, url, sdir) ==
    LET abs_url == AbsoluteUrl(a, url)
        found   == GetSubresource(a, abs_url)
    IN  IF found = <<>> THEN UrlVal(abs_url)
        ELSE IF sdir.none THEN ToDataUri(a, found[1]).val
        ELSE PathVal(sdir.name, GetLocalPath(a, abs_url)[1])

\* C22: for every tag with a srcset attribute the output keeps the
\* attribute with the same number of entries in the same order, each
\* entry's URL rewritten by the src rule and its descriptor unchanged; an
\* entry without a descriptor is accepted, so the rewriter does not fail
\* on a srcset.
C22_SrcsetKept ==
    Rewriting =>
        /\ rw.pc = "failed" => Item.attr # "srcset"
        /\ \A i \in 1..Len(rw.out) :
               Doc[i].attr = "srcset" =>
                   /\ rw.out[i].kind = "tag"
                   /\ rw.out[i].val.kind = "srcset"
                   /\ Len(rw.out[i].val.items) = Len(Doc[i].srcset)
                   /\ \A k \in 1..Len(Doc[i].srcset) :
                          /\ rw.out[i].val.items[k].desc = Doc[i].srcset[k].desc
                          /\ rw.out[i].val.items[k].src
                                 = SrcRuleValue(tree, Doc[i].srcset[k].src,
                                                rw.root)

(***************************************************************************)
(* Repeated url() values in a style sheet.                                 *)
(***************************************************************************)
\* process_style_sheet was applied to a style sheet and returned
StyleSheetProcessed ==
    /\ ret.op = "process_style_sheet"
    /\ ret.val # <<>>

\* C23: in a rewritten style sheet every url() value has been substituted
\* once, however often its literal occurs: a reference to a resource that
\* is not archived is its absolute URL (an absolute one is unchanged), not
\* a doubly prefixed one, and with local paths a reference to an archived
\* resource is that resource's local path (a reference spelled as the
\* local path is unchanged).
C23_SubstitutedOnce ==
    StyleSheetProcessed =>
        LET res  == tree.subs[ret.place[2]]
            vals == ret.val[1].vals
        IN  \A i \in 1..Len(res.data.refs) :
                LET abs_url == UrlJoin(res.url, res.data.refs[i].val)
                IN  /\ abs_url \notin DOMAIN tree.lp
                        => vals[i] = UrlStr(abs_url)
                    /\ (abs_url \in DOMAIN tree.lp /\ ret.local_paths # <<>>)
                        => vals[i] = tree.lp[abs_url]

(***************************************************************************)
(* Failures while a resource is written.                                   *)
(***************************************************************************)
\* the file that the step at hand writes
PathAtHand ==
    IF stack = <<>> THEN {}
    ELSE IF Top.pc = "main_write" THEN {Top.out}
    ELSE IF Top.pc = "sub_write"
    THEN {SubresourcePath(At(tree, Top.node), Top.out,
                          At(tree, Top.node).subs[Top.i])}
    ELSE {}

\* C24: when a resource fails to be written or decoded during extract, the
\* error leaves every activation of extract, the after hook of that
\* resource is not called, the files written earlier stay as they are, and
\* afterwards no hook is called and no file is written: nothing is
\* retried.
C24_FailureEndsExtract ==
    [][/\ (status = "running" /\ err' # "none")
           => /\ status' = "failed"
              /\ stack' = <<>>
              /\ log' = log
              /\ \A p \in DOMAIN files \ PathAtHand :
                     p \in DOMAIN files' /\ files'[p] = files[p]
       /\ status = "failed"
           => /\ status' = "failed"
              /\ log' = log
              /\ files' = files
              /\ dirs' = dirs]_vars

\* the write of a subresource of a subframe archive failed in the
\* operating system or the codec, after the files of the page and of the
\* subframe's document were written and their hooks called
C24_Witness ==
    /\ status = "failed"
    /\ err \in {"OSError", "UnicodeDecodeError"}
    /\ Len(log) > 0
    /\ log[Len(log)].ev = "before"
    /\ log[Len(log)].node = <<1>>
    /\ log[Len(log)].res # tree.kids[1].main
    /\ RootOut \in DOMAIN files
    /\ files[RootOut].form # "partial"
    /\ \E k \in 1..Len(log) : log[k].ev = "after" /\ log[k].node = <<1>>

(***************************************************************************)
(* The files of a linked extraction.                                       *)
(***************************************************************************)
\* C25: in a linked extraction of a whole tree no two resources, at any
\* depth and the root's main document included, are written to the same
\* file path: no resource's file overwrites another's.
C25_NoOverwrite ==
    (Linked /\ WellFormed(tree)) =>
        \A j, k \in 1..Len(log) :
            (j < k /\ log[j].ev = "write" /\ log[k].ev = "write")
                => log[j].path # log[k].path
(***************************************************************************)
(* Rewritten references and the files of the extraction.                   *)
(***************************************************************************)
\* the file a local path names when it stands in a document of directory d
NamedFile(d, v) ==
    MkPath(IF v.dir = <<>> THEN d ELSE Append(d, v.dir), v.name)

\* the local file names of the root archive's table
LocalNames == {tree.lp[u] : u \in DOMAIN tree.lp}

\* C26: after a completed linked extract, every local path in the written
\* main document names a file of this extraction, and so does every local
\* file name in a written style sheet (relative to the subresource
\* directory); a reference to the page's own URL is no exception.
C26_EmittedPathsExist ==
    (Completed /\ Linked) =>
        /\ MainWritten =>
              \A i \in 1..Len(files[RootOut].text.vals) :
                  LET v == files[RootOut].text.vals[i]
                  IN  v.kind = "path" => NamedFile(RootOut.dir, v) \in DOMAIN files
        /\ \A k \in 1..Len(tree.subs) :
              (SubWritten(k) /\ tree.subs[k].mime = "text/css") =>
                  \A i \in 1..Len(CssFile(k).text.vals) :
                      CssFile(k).text.vals[i] \in LocalNames =>
                          MkPath(SubresourceDir(RootOut), CssFile(k).text.vals[i])
                              \in DOMAIN files

(***************************************************************************)
(* Progress.                                                               *)
(***************************************************************************)
IsBefore(e) == e.ev = "before"

IsAfter(e) == e.ev = "after"

\* the numbers of before_cb and after_cb calls so far
BeforeCalls == Len(SelectSeq(log, IsBefore))

AfterCalls == Len(SelectSeq(log, IsAfter))

\* C27: with both hooks given, in linked and in embedded mode, there are
\* never more after_cb calls than before_cb calls nor more than
\* resource_count(), and when the extract has completed without
\* cancellation there are exactly resource_count() of them.
C27_AfterCallsReachCount ==
    HooksGiven =>
        /\ AfterCalls <= BeforeCalls
        /\ AfterCalls <= ResourceCount(tree)
        /\ Completed => AfterCalls = ResourceCount(tree)

\* C28: every before_cb and after_cb call is about a resource that exists,
\* with the path that resource is written to; and when extract fails on an
\* archive without a main resource, no hook was called and no file or
\* directory was made.
C28_HooksGetResources ==
    /\ \A k \in 1..Len(log) :
          /\ log[k].ev \in {"before", "after"} => log[k].res # <<>>
          /\ log[k].ev = "before" /\ k < Len(log)
                 => log[k + 1].ev = "write" /\ SameTarget(k, k + 1)
          /\ log[k].ev = "after" => log[k].path \in DOMAIN files
    /\ (status = "failed" /\ ~HasMain(tree)) =>
          /\ \A k \in 1..Len(log) : log[k].ev \notin {"before", "after"}
          /\ files = EmptyMap
          /\ dirs = {<< <<"out">> >>}

(***************************************************************************)
(* The extractor window.                                                   *)
(***************************************************************************)
\* canceled_cb reported true between the k-th event and the last
\* "archive start" before it
CanceledBefore(k) ==
    \E j \in 1..(k - 1) :
        /\ log[j].ev = "canceled"
        /\ log[j].val
        /\ \A m \in (j + 1)..(k - 1) : log[m].ev # "archive start"

\* C29: the thread puts one terminal item (None, or the exception when
\* extract raised) and nothing after it; each "archive start" is followed
\* by its "resource count" before any "resource start"; "resource start"
\* and "resource done" alternate; and "archive done" is put only for an
\* archive whose extraction was not canceled.
C29_QueueProtocol ==
    /\ \A k \in 1..Len(Queue) : Terminal(Queue[k]) => k = Len(Queue)
    /\ gui.pc = "end" <=> (Queue # <<>> /\ Terminal(Queue[Len(Queue)]))
    /\ gui.pc = "end" =>
          (Queue[Len(Queue)].ev = "error" <=> status = "failed")
    /\ \A k \in 1..Len(Queue) :
          /\ Queue[k].ev = "archive start" /\ k < Len(Queue)
                 => Queue[k + 1].ev = "resource count"
          /\ Queue[k].ev = "resource count"
                 => k > 1 /\ Queue[k - 1].ev = "archive start"
          /\ Queue[k].ev = "before"
                 => k > 2 /\ Queue[k - 1].ev \in {"resource count", "after"}
          /\ Queue[k].ev = "after"
                 => k > 1 /\ Queue[k - 1].ev = "before"
    /\ \A k \in 1..Len(log) :
          log[k].ev = "archive done" => ~CanceledBefore(k)

\* every archive was extracted to its end and None was put
RunComplete ==
    /\ gui.pc = "end"
    /\ gui.idx > Len(gui.archives)
    /\ Queue[Len(Queue)].ev = "finished"
    /\ \A k \in 1..Len(log) : ~(log[k].ev = "canceled" /\ log[k].val)

\* C30: with the thread and the event loop scheduled fairly, a close
\* request during extraction sets the canceler, the thread then puts its
\* terminal item, processing becomes false and the window is destroyed;
\* and the page is opened in the browser only after a run that ended
\* without error and without cancellation.
C30_CloseEndsRun ==
    /\ [](gui.closing => gui.canceler)
    /\ (gui.closing ~> gui.pc = "end")
    /\ (gui.closing ~> (~gui.processing /\ gui.destroyed))
    /\ [](gui.opened => (RunComplete /\ ~gui.error_occurred))

====
